---- MODULE Spec2Model ----
(***************************************************************************)
(* Verification model of autoPDFtagger:                                    *)
(*   - the dependency-aware job scheduler   (job_manager.py, autoPDFtagger.py) *)
(*   - the confidence-gated metadata record (PDFDocument.py)               *)
(*   - the content budgeting / request assembly (ai_tasks.analyze_combined) *)
(*   - the TTL cache                         (cache.py)                    *)
(* Each subsystem has its own specification over its own group of          *)
(* variables; the variables of the other groups stay at their idle value.  *)
(***************************************************************************)
EXTENDS Integers, Sequences, FiniteSets, TLC

\* ------------------------------------------------------------------------
\* Bounds of the model
\* ------------------------------------------------------------------------
MaxJobs == 3
MaxDeps == 1
MaxWorkers == 2
MaxDocs == 2
MaxConf == 2
MaxPages == 2
MaxImgs == 2
MaxTicks == 2
MaxTagList == 2
MaxTtl == 1
StartTime == 5
MaxThreads == 3
MaxOps == 4
\* text-budget calls: tokens per user text and per page text, pages, token_limit
MaxTextTokens == 3
MaxPageTokens == 2
MaxTextPages == 3
MaxLimit == 10

VARIABLES
  \* ---- JobManager (job_manager.py) ----
  jobs,       \* self.jobs: insertion-ordered, records [id, kind, deps, status]
  futures,    \* self._futures: job id -> "pending" | "ok" | "exc"
  runner,     \* per submitted job: the runner() closure [pc, i, wait_for]
  queue,      \* work queue of each ThreadPoolExecutor, FIFO
  workers,    \* [ocr |-> ocr_workers, ai |-> ai_workers]
  mainPc,     \* position of the thread that calls add_job / run
  cursor,     \* index of the submission loops of run()
  tally,      \* value returned by run(): <<pending, running, done, failed>>
  pipe        \* run_jobs_parallel: its flags and the documents still to add

VARIABLES
  \* ---- the run callables of run_jobs_parallel ----
  pcall,      \* job id -> how the job's run callable went (see Outcomes)
  precs       \* per document: the passes whose reply set_from_json has
              \* applied to the document's record, in order

VARIABLES
  \* ---- Metadata Record (PDFDocument.py) ----
  doc,        \* the metadata attributes of one PDFDocument
  hist,       \* history: per field, the highest confidence supplied so far
              \* and the value of the latest call that carried it
  seen        \* history: kinds of setter calls made so far

VARIABLES
  \* ---- the tags of a Metadata Record (PDFDocument.py) ----
  tags,             \* self.tags
  tags_confidence,  \* self.tags_confidence
  tsup,       \* history: tag -> highest confidence supplied for it since the
              \* tag list was last replaced as a whole
  tcall       \* history: the latest call; for set_tags its arguments, whether
              \* it repeated the call before it and whether it changed the record

VARIABLES
  \* ---- analyze_combined (ai_tasks.py): one call ----
  binp,       \* the call's inputs: configuration, intro, page texts, images
  bpc,        \* position in analyze_combined
  btext,      \* text_parts: <<[page, chars]>>, a text being its length
  bord,       \* ordered (early + rest) and the index of the greedy walk
  bsel,       \* used_tokens, remaining, image_tokens_spent, the selections
  bparts      \* parts, each tagged with the page it was built for

VARIABLES
  \* ---- cache.py ----
  ccfg,       \* the module globals [enabled, ttl_seconds]
  cfiles,     \* the cache directory: path -> [mtime, text], text being the
              \* JSON document written to the file
  cnow,       \* time.time()
  cwritten,   \* history: path -> <<[v, expires_at]>> of the latest set that
              \* wrote the path
  clast       \* history: the latest get or set and what it returned

VARIABLES
  \* ---- JobManager._status_loop (job_manager.py) ----
  poll        \* [pc, stop, finalized, emitted]: position of the status thread,
              \* _stop_event, _finalized_kinds, and per kind the number of
              \* final lines written so far

VARIABLES
  \* ---- ai_common.apply_text_budget, the trimming loop of analyze_combined ----
  tb          \* the latest text-budget call: its inputs (tokenizer in use,
              \* texts, token_limit) and what it returned

VARIABLES
  \* ---- llm_client.py ----
  llast       \* history: the latest run_chat / run_vision call, what it
              \* returned and the entry stored for its key before it

VARIABLES
  \* ---- threads calling cache.get / cache.set at the same time ----
  cthr        \* [thr, started, sets]: per thread its position in get / set and
              \* its locals, the number of calls started and of sets completed

jmVars == <<jobs, futures, runner, queue, workers, mainPc, cursor, tally, pipe>>

docVars == <<doc, hist, seen>>

budVars == <<binp, bpc, btext, bord, bsel, bparts>>

cacheVars == <<ccfg, cfiles, cnow, cwritten, clast>>

pipeVars == <<pcall, precs>>

tagVars == <<tags, tags_confidence, tsup, tcall>>

threadVars == <<cthr>>

clientVars == <<llast>>

pollVars == <<poll>>

textVars == <<tb>>

vars == <<jmVars, docVars, budVars, cacheVars, pipeVars, tagVars, threadVars, clientVars, pollVars, textVars>>

notJm == <<docVars, budVars, cacheVars, pipeVars, tagVars, threadVars, clientVars, pollVars, textVars>>

notDoc == <<jmVars, budVars, cacheVars, pipeVars, tagVars, threadVars, clientVars, pollVars, textVars>>

notBud == <<jmVars, docVars, cacheVars, pipeVars, tagVars, threadVars, clientVars, pollVars, textVars>>

notCache == <<jmVars, docVars, budVars, pipeVars, tagVars, threadVars, clientVars, pollVars, textVars>>

notJmPipe == <<docVars, budVars, cacheVars, tagVars, threadVars, clientVars, pollVars, textVars>>

notTags == <<jmVars, docVars, budVars, cacheVars, pipeVars, threadVars, clientVars, pollVars, textVars>>

notDocTags == <<jmVars, budVars, cacheVars, pipeVars, threadVars, clientVars, pollVars, textVars>>


\* ------------------------------------------------------------------------
\* Metadata Record
\* ------------------------------------------------------------------------
Max2(a, b) == IF a >= b THEN a ELSE b

Min2(a, b) == IF a <= b THEN a ELSE b

SetMax(S) == CHOOSE x \in S : \A y \in S : y <= x

SimpleFields == {"title", "summary", "creator", "importance"}

Confidences == 0..MaxConf

\* values a caller passes for title / summary / creator / importance
FieldValues == {"A", "B"}

\* PDFDocument.__init__: every field empty, every confidence 0
\* ("<None>" stands for Python's None)
NewDocument ==
  [title |-> "", title_confidence |-> 0,
   summary |-> "", summary_confidence |-> 0,
   creator |-> "", creator_confidence |-> 0,
   importance |-> "<None>", importance_confidence |-> 0,
   creation_date |-> "", creation_date_confidence |-> 0]

NoHistory == [f \in SimpleFields |-> [max |-> -1, val |-> ""]]

DocConstructed ==
  /\ doc = NewDocument
  /\ hist = NoHistory
  /\ seen = {}

\* PDFDocument.__init__: tags = [], tags_confidence = []
TagsConstructed ==
  /\ tags = <<>>
  /\ tags_confidence = <<>>
  /\ tsup = <<>>
  /\ tcall = [op |-> "none"]

DocIdle == DocConstructed /\ TagsConstructed

ConfKey(f) == IF f = "title" THEN "title_confidence"
              ELSE IF f = "summary" THEN "summary_confidence"
              ELSE IF f = "creator" THEN "creator_confidence"
              ELSE IF f = "importance" THEN "importance_confidence"
              ELSE "creation_date_confidence"

\* a setter that would keep the old value on equal confidence
SetFieldStrict(d, f, value, confidence) ==
  IF confidence > d[ConfKey(f)]
    THEN [d EXCEPT ![f] = value, ![ConfKey(f)] = confidence]
    ELSE d

\* set_title / set_summary / set_creator / set_importance: the four bodies
\* are the same up to the attribute name
SetField(d, f, value, confidence) ==
  IF confidence >= d[ConfKey(f)]
    THEN [d EXCEPT ![f] = value, ![ConfKey(f)] = confidence]
    ELSE d

\* arguments passed as creation_date
DateInputs == {"<None>", "", "2022-01-01", " 2022_01_01 ", "2022-13-01",
               "D:20220101100000Z"}

\* the string branch of set_creation_date: strip, first date_formats entry whose
\* regex matches and whose strptime succeeds, else pdf_date_to_datetime for
\* "D:" strings; a timezone-aware result is converted to naive UTC.
\* "<None>" is "no date_obj".
ParseDate(s) ==
  CASE s = "2022-01-01" -> "2022-01-01 00:00:00"
    [] s = " 2022_01_01 " -> "2022-01-01 00:00:00"
    [] s = "D:20220101100000Z" -> "2022-01-01 10:00:00"
    [] OTHER -> "<None>"

Falsy(x) == x \in {"<None>", ""}

\* PDFDocument.set_creation_date
SetCreationDate(d, creation_date, confidence) ==
  IF Falsy(creation_date)
    THEN [d EXCEPT !.creation_date = "<None>"]
    ELSE IF ParseDate(creation_date) # "<None>"
              /\ confidence >= d.creation_date_confidence
           THEN [d EXCEPT !.creation_date = ParseDate(creation_date),
                          !.creation_date_confidence = confidence]
           ELSE d

\* history of a call (value, confidence) on a field
Supplied(h, f, value, confidence) ==
  IF confidence >= h[f].max
    THEN [h EXCEPT ![f] = [max |-> confidence, val |-> value]]
    ELSE h

CallKind(d, f, value, confidence) ==
  IF confidence < d[ConfKey(f)] THEN {"lower"}
  ELSE IF confidence = d[ConfKey(f)] /\ hist[f].max >= 0 /\ d[f] # value THEN {"tie"}
  ELSE {}

CallSetField(f, value, confidence) ==
  /\ doc' = SetField(doc, f, value, confidence)
  /\ hist' = Supplied(hist, f, value, confidence)
  /\ seen' = seen \cup CallKind(doc, f, value, confidence)
  /\ UNCHANGED notDoc

CallSetCreationDate(creation_date, confidence) ==
  /\ doc' = SetCreationDate(doc, creation_date, confidence)
  /\ UNCHANGED <<hist, seen>>
  /\ UNCHANGED notDoc


\* ------------------------------------------------------------------------
\* Tags of the Metadata Record
\* ------------------------------------------------------------------------
\* a dict (insertion-ordered) is a sequence of [key, val] with distinct keys

DictHas(m, key) == \E k \in DOMAIN m : m[k].key = key

DictGet(m, key) == m[CHOOSE k \in DOMAIN m : m[k].key = key].val

\* m[key] = val: a present key keeps its position
DictPut(m, key, val) ==
  IF DictHas(m, key)
    THEN [k \in DOMAIN m |-> IF m[k].key = key THEN [key |-> key, val |-> val] ELSE m[k]]
    ELSE Append(m, [key |-> key, val |-> val])

DictKeys(m) == [k \in DOMAIN m |-> m[k].key]

DictVals(m) == [k \in DOMAIN m |-> m[k].val]

\* set_tags, first loop: "for index, existing_tag in enumerate(self.tags)"
RECURSIVE MergeExisting(_, _, _, _)
MergeExisting(m, ts, cs, index) ==
  IF index > Len(ts) THEN m
  ELSE IF ts[index] = "" THEN MergeExisting(m, ts, cs, index + 1)
  ELSE LET existing_conf == IF index <= Len(cs) THEN cs[index] ELSE 0
           current_conf == IF DictHas(m, ts[index]) THEN DictGet(m, ts[index])
                           ELSE existing_conf
       IN MergeExisting(DictPut(m, ts[index], Max2(current_conf, existing_conf)),
                        ts, cs, index + 1)

\* a second loop that would keep the lower confidence of a tag supplied again
RECURSIVE MergeIncomingLowest(_, _, _, _)
MergeIncomingLowest(m, tag_list, confidence_list, k) ==
  IF k > Len(tag_list) THEN m
  ELSE IF tag_list[k] = "" THEN MergeIncomingLowest(m, tag_list, confidence_list, k + 1)
  ELSE MergeIncomingLowest(
         IF ~DictHas(m, tag_list[k]) THEN DictPut(m, tag_list[k], confidence_list[k])
         ELSE DictPut(m, tag_list[k], Min2(DictGet(m, tag_list[k]), confidence_list[k])),
         tag_list, confidence_list, k + 1)

\* set_tags, second loop: "for tag, confidence in zip(tag_list, confidence_list)"
RECURSIVE MergeIncoming(_, _, _, _)
MergeIncoming(m, tag_list, confidence_list, k) ==
  IF k > Len(tag_list) THEN m
  ELSE IF tag_list[k] = "" THEN MergeIncoming(m, tag_list, confidence_list, k + 1)
  ELSE MergeIncoming(
         IF ~DictHas(m, tag_list[k]) THEN DictPut(m, tag_list[k], confidence_list[k])
         ELSE IF confidence_list[k] >= DictGet(m, tag_list[k])
           THEN DictPut(m, tag_list[k], Max2(DictGet(m, tag_list[k]), confidence_list[k]))
         ELSE m,
         tag_list, confidence_list, k + 1)

\* a set_tags that would append the incoming tags to the lists
SetTagsAppend(ts, cs, tag_list, confidence_list) ==
  IF Len(tag_list) # Len(confidence_list) THEN <<ts, cs>>
  ELSE <<ts \o SelectSeq(tag_list, LAMBDA t : t # ""),
         cs \o [k \in 1..Len(SelectSeq(tag_list, LAMBDA t : t # "")) |-> confidence_list[k]]>>

\* PDFDocument.set_tags: <<tags, tags_confidence>> after the call; a length
\* mismatch raises ValueError before anything is changed
SetTags(ts, cs, tag_list, confidence_list) ==
  IF Len(tag_list) # Len(confidence_list) THEN <<ts, cs>>
  ELSE LET tag_conf_map == MergeIncoming(MergeExisting(<<>>, ts, cs, 1),
                                         tag_list, confidence_list, 1)
       IN <<DictKeys(tag_conf_map), DictVals(tag_conf_map)>>

\* replacement_dict = {rep['original']: rep['replacement'] for rep in replacements}
RECURSIVE ReplacementDict(_, _)
ReplacementDict(replacements, k) ==
  IF k > Len(replacements) THEN <<>>
  ELSE LET rest == ReplacementDict(replacements, k + 1)
       IN IF DictHas(rest, replacements[k].original) THEN rest
          ELSE <<[key |-> replacements[k].original, val |-> replacements[k].replacement]>> \o rest

\* the loop of apply_tag_replacements: "tag_info[new_tag] = {'confidence': confidence}"
RECURSIVE ReplaceLoop(_, _, _, _, _)
ReplaceLoop(tag_info, ts, cs, rd, i) ==
  IF i > Len(ts) THEN tag_info
  ELSE LET new_tag == IF DictHas(rd, ts[i]) THEN DictGet(rd, ts[i]) ELSE ts[i]
           confidence == IF i <= Len(cs) THEN cs[i] ELSE 0
       IN ReplaceLoop(IF new_tag = "" THEN tag_info ELSE DictPut(tag_info, new_tag, confidence),
                      ts, cs, rd, i + 1)

\* PDFDocument.apply_tag_replacements
ApplyTagReplacements(ts, cs, replacements) ==
  LET tag_info == ReplaceLoop(<<>>, ts, cs, ReplacementDict(replacements, 1), 1)
  IN <<DictKeys(tag_info), DictVals(tag_info)>>

\* history: highest confidence per non-empty tag of a (tags, confidences) pair
RECURSIVE SupplyAll(_, _, _, _)
SupplyAll(h, tl, cl, k) ==
  IF k > Len(tl) THEN h
  ELSE SupplyAll(IF tl[k] = "" THEN h
                 ELSE IF tl[k] \in DOMAIN h
                   THEN [h EXCEPT ![tl[k]] = Max2(@, IF k <= Len(cl) THEN cl[k] ELSE 0)]
                 ELSE (tl[k] :> (IF k <= Len(cl) THEN cl[k] ELSE 0)) @@ h,
                 tl, cl, k + 1)

\* confidence given to every tag derived from the path
PathTagConfidence == 6

\* extract_tags_from_relative_path (called by analyze_file on a new record):
\* the directory names replace the tag list
ExtractTags(path_tags) ==
  /\ tcall.op = "none"
  /\ path_tags # <<>>
  /\ tags' = path_tags
  /\ tags_confidence' = [k \in DOMAIN path_tags |-> PathTagConfidence]
  /\ tsup' = SupplyAll(<<>>, tags', tags_confidence', 1)
  /\ tcall' = [op |-> "extract"]
  /\ UNCHANGED notTags

CallSetTags(tag_list, confidence_list) ==
  LET after == SetTags(tags, tags_confidence, tag_list, confidence_list)
  IN /\ tags' = after[1]
     /\ tags_confidence' = after[2]
     /\ tsup' = IF Len(tag_list) = Len(confidence_list)
                  THEN SupplyAll(tsup, tag_list, confidence_list, 1) ELSE tsup
     /\ tcall' = [op |-> "set_tags", tag_list |-> tag_list,
                  confidence_list |-> confidence_list,
                  repeated |-> IF tcall.op = "set_tags"
                                 THEN /\ tcall.tag_list = tag_list
                                      /\ tcall.confidence_list = confidence_list
                                 ELSE FALSE,
                  changed |-> after # <<tags, tags_confidence>>]
     /\ UNCHANGED notTags

CallApplyTagReplacements(replacements) ==
  LET after == ApplyTagReplacements(tags, tags_confidence, replacements)
  IN /\ tags' = after[1]
     /\ tags_confidence' = after[2]
     /\ tsup' = SupplyAll(<<>>, tags', tags_confidence', 1)
     /\ tcall' = [op |-> "replace"]
     /\ UNCHANGED notTags


\* ------------------------------------------------------------------------
\* LLM replies: ai_common.normalize_confidence_numbers, PDFDocument.set_from_dict
\* ------------------------------------------------------------------------
\* A reply is [conf, has_tags, tags, tags_confidence]: conf maps the fields
\* whose value and confidence keys are both present to the confidence the
\* model returned.  Confidences of a reply are written in hundredths
\* (15 is 0.15, 700 is 7); stored confidences are whole numbers.

\* Python's round(): to the nearest integer, ties to the even one
RoundHalfEven(n, d) ==
  LET q == n \div d
      r == n % d
  IN IF 2 * r < d THEN q
     ELSE IF 2 * r > d THEN q + 1
     ELSE IF q % 2 = 0 THEN q ELSE q + 1

\* _clamp(x) for x = h / 100: int(round(x * 10)) limited to [0, 10]
Clamp(h) == Max2(0, Min2(10, RoundHalfEven(h, 10)))

\* vals of _process_obj: every *_confidence number and every tags_confidence entry
ReplyVals(reply) ==
  {reply.conf[f] : f \in DOMAIN reply.conf}
    \cup (IF reply.has_tags
            THEN {reply.tags_confidence[k] : k \in DOMAIN reply.tags_confidence}
            ELSE {})

\* the reply is on the 0..1 scale: max(vals) <= 1.0
Scaled(reply) == ReplyVals(reply) # {} /\ SetMax(ReplyVals(reply)) <= 100

\* normalize_confidence_numbers on one object: a reply on the 0..1 scale is
\* scaled by 10, rounded and clamped; any other reply is returned as it is
\* (its whole confidences h / 100, unclamped)
NormalizeConfidenceNumbers(reply) ==
  IF Scaled(reply)
    THEN [reply EXCEPT
            !.conf = [f \in DOMAIN reply.conf |-> Clamp(reply.conf[f])],
            !.tags_confidence = [k \in DOMAIN reply.tags_confidence |->
                                   Clamp(reply.tags_confidence[k])]]
    ELSE [reply EXCEPT
            !.conf = [f \in DOMAIN reply.conf |-> reply.conf[f] \div 100],
            !.tags_confidence = [k \in DOMAIN reply.tags_confidence |->
                                   reply.tags_confidence[k] \div 100]]

\* value a reply carries for a field
ReplyValue(f) == IF f = "creation_date" THEN "2022-01-01" ELSE "A"

SetFromKey(d, obj, f) ==
  IF f \notin DOMAIN obj.conf THEN d
  ELSE IF f = "creation_date"
    THEN SetCreationDate(d, ReplyValue(f), obj.conf[f])
  ELSE SetField(d, f, ReplyValue(f), obj.conf[f])

\* PDFDocument.set_from_dict, the five fields in the order of the code
SetFromDict(d, obj) ==
  SetFromKey(SetFromKey(SetFromKey(SetFromKey(SetFromKey(d, obj, "title"),
    obj, "summary"), obj, "creation_date"), obj, "creator"), obj, "importance")

\* analyze_text / analyze_combined normalise the parsed reply and the job's
\* _run hands it to set_from_json: set_from_dict sets the fields, then the
\* tags; set_tags' ValueError on a length mismatch is caught by set_from_json
\* after the fields were set
CallSetFromJson(reply) ==
  LET obj == NormalizeConfidenceNumbers(reply)
      after == IF obj.has_tags
                 THEN SetTags(tags, tags_confidence, obj.tags, obj.tags_confidence)
                 ELSE <<tags, tags_confidence>>
  IN /\ doc' = SetFromDict(doc, obj)
     /\ hist' = [f \in SimpleFields |->
                   IF f \in DOMAIN obj.conf
                     THEN Supplied(hist, f, ReplyValue(f), obj.conf[f])[f]
                     ELSE hist[f]]
     /\ UNCHANGED seen
     /\ tags' = after[1]
     /\ tags_confidence' = after[2]
     /\ tsup' = IF obj.has_tags /\ Len(obj.tags) = Len(obj.tags_confidence)
                  THEN SupplyAll(tsup, obj.tags, obj.tags_confidence, 1)
                  ELSE tsup
     /\ tcall' = [op |-> "set_from_json", scaled |-> Scaled(reply)]
     /\ UNCHANGED notDocTags

\* ------------------------------------------------------------------------
\* Content budgeting and request assembly: ai_tasks.analyze_combined
\* ------------------------------------------------------------------------
BaseTokens == 85
TileTokens == 170
TilePx == 512
Safety == 10
MaxTiles == 9
\* len("[Page p]\n") for a one-digit page number
PagePrefixLen == 9
\* sort key of a page candidate in `rest`: area = float('inf')
InfArea == 100000000

CeilDiv(a, b) == (a + b - 1) \div b

RECURSIVE SumSeq(_)
SumSeq(q) == IF q = <<>> THEN 0 ELSE Head(q) + SumSeq(Tail(q))

\* tokenize_text without tiktoken: max(1, len(text) // 4)
TokLen(chars) == Max2(1, chars \div 4)

NoSelection ==
  [used_tokens |-> 0, remaining |-> 0, image_tokens_spent |-> 0,
   selected_pages_full |-> {}, selected_images |-> {}, render_px_override |-> <<>>,
   skipped_due_budget |-> 0, trimmed |-> FALSE, fallback |-> FALSE]

NoInput == [token_limit |-> 0]

BudIdle ==
  /\ binp = NoInput
  /\ bpc = "idle"
  /\ btext = <<>>
  /\ bord = [ordered |-> <<>>, i |-> 1]
  /\ bsel = NoSelection
  /\ bparts = <<>>

\* page_text_map -> text_parts: "[Page p]\n" + text for the pages with text
TextParts(inp) ==
  LET pp == SelectSeq([p \in 1..Len(inp.page_chars) |-> p], LAMBDA p : inp.page_chars[p] > 0)
  IN [k \in 1..Len(pp) |-> [page |-> pp[k], chars |-> PagePrefixLen + inp.page_chars[pp[k]]]]

\* the proportional trimming loop: tgt = int(tok * budget / total_pages),
\* pages with tgt <= 0 dropped, else t[:max(1, int(len(t) * tgt / tok))]
TrimParts(parts, budget) ==
  LET toks == [k \in 1..Len(parts) |-> TokLen(parts[k].chars)]
      total == IF SumSeq(toks) = 0 THEN 1 ELSE SumSeq(toks)
      tgt(k) == (toks[k] * budget) \div total
      cut(k) == (parts[k].chars * tgt(k)) \div Max2(1, toks[k])
      keep == SelectSeq([k \in 1..Len(parts) |-> k], LAMBDA k : tgt(k) > 0)
  IN [j \in 1..Len(keep) |->
        [page |-> parts[keep[j]].page,
         chars |-> Min2(parts[keep[j]].chars, Max2(1, cut(keep[j])))]]

TextTokens(parts) == SumSeq([k \in 1..Len(parts) |-> TokLen(parts[k].chars)])

\* image_candidates: ids run over the pages in reading order
RECURSIVE ImageCandidates(_, _, _)
ImageCandidates(imgs, p, nextId) ==
  IF p > Len(imgs) THEN <<>>
  ELSE [k \in 1..Len(imgs[p]) |->
          [kind |-> "image", id |-> nextId + k - 1, page |-> p,
           w |-> imgs[p][k][1], h |-> imgs[p][k][2],
           area |-> imgs[p][k][1] * imgs[p][k][2]]]
       \o ImageCandidates(imgs, p + 1, nextId + Len(imgs[p]))

\* per_page grouping: a page with >= page_group_threshold images becomes one
\* page candidate, else its images stay candidates
RECURSIVE Candidates(_, _, _)
Candidates(inp, cands, p) ==
  IF p > Len(inp.imgs) THEN <<>>
  ELSE LET metas == SelectSeq(cands, LAMBDA m : m.page = p)
       IN (IF metas = <<>> THEN <<>>
           ELSE IF Len(metas) >= inp.page_group_threshold
             THEN <<[kind |-> "page", id |-> 0, page |-> p, w |-> 0, h |-> 0,
                     area |-> InfArea]>>
             ELSE metas)
          \o Candidates(inp, cands, p + 1)

\* list.sort(key=...): stable, ascending in the key; q holds [key, c] pairs
RECURSIVE SortStable(_)
SortStable(q) ==
  IF q = <<>> THEN <<>>
  ELSE LET rest == SortStable(Tail(q))
           x == Head(q)
           before == SelectSeq(rest, LAMBDA y : y.key < x.key)
           after == SelectSeq(rest, LAMBDA y : y.key >= x.key)
       IN before \o <<x>> \o after

\* keys[i] is the sort key of q[i]
SortByKey(q, keys) ==
  LET sorted == SortStable([i \in 1..Len(q) |-> [key |-> keys[i], c |-> q[i]]])
  IN [i \in 1..Len(sorted) |-> sorted[i].c]

EarlyKey(c) == IF c.kind # "page" THEN c.id ELSE -1

\* sort(key=area, reverse=True) keeps the order of equal areas
RestKey(c) == 0 - c.area

\* ordered = early + rest
Ordered(inp) ==
  LET cs == Candidates(inp, ImageCandidates(inp.imgs, 1, 1), 1)
      early == SelectSeq(cs, LAMBDA c : c.page <= inp.priority_first_pages)
      rest == SelectSeq(cs, LAMBDA c : c.page > inp.priority_first_pages)
  IN SortByKey(early, [i \in 1..Len(early) |-> EarlyKey(early[i])])
       \o SortByKey(rest, [i \in 1..Len(rest) |-> RestKey(rest[i])])

\* max(1, int(edge * scale)) with scale = min(1.0, max_px / longest)
ScaledPx(edge, longest, max_px) ==
  Max2(1, IF longest > 0 /\ max_px # 0 /\ max_px < longest
            THEN (edge * max_px) \div longest
            ELSE edge)

\* _estimate_tokens_for_candidate
EstimateTokens(inp, c) ==
  IF inp.tokens_per_image > 0 THEN inp.tokens_per_image
  ELSE LET w == IF c.kind = "page" THEN inp.page_w ELSE c.w
           h == IF c.kind = "page" THEN inp.page_h ELSE c.h
           mx == IF c.kind = "page" THEN inp.page_render_max_px ELSE inp.image_render_max_px
           tiles == CeilDiv(ScaledPx(w, Max2(w, h), mx), TilePx)
                      * CeilDiv(ScaledPx(h, Max2(w, h), mx), TilePx)
       IN BaseTokens + TileTokens * tiles

\* int(math.ceil(math.sqrt(n))) for 1 <= n <= MaxTiles
CeilSqrt(n) == CHOOSE r \in 1..n : r * r >= n /\ (r - 1) * (r - 1) < n

\* "if intro_tokens > token_limit: return None, {... 'intro_exceeds_limit'}"
IntroAbort ==
  /\ bpc = "start"
  /\ TokLen(binp.intro_chars) > binp.token_limit
  /\ bpc' = "aborted"
  /\ UNCHANGED <<binp, btext, bord, bsel, bparts, notBud>>

\* a text budget that would give up when intro + page texts exceed the limit
TextBudgetAbortsOverlong ==
  /\ bpc = "start"
  /\ TokLen(binp.intro_chars) <= binp.token_limit
  /\ LET intro_tokens == TokLen(binp.intro_chars)
         text_parts == TextParts(binp)
         over == intro_tokens + TextTokens(text_parts) > binp.token_limit
         used == intro_tokens + TextTokens(text_parts)
     IN IF over
          THEN /\ bpc' = "aborted"
               /\ UNCHANGED <<btext, bsel>>
          ELSE /\ btext' = text_parts
               /\ bsel' = [bsel EXCEPT !.used_tokens = used,
                                       !.remaining = Max2(0, binp.token_limit - used),
                                       !.trimmed = FALSE]
               /\ bpc' = "order"
  /\ UNCHANGED <<binp, bord, bparts, notBud>>

\* text budget: intro + page texts, proportional trimming, used_tokens and
\* remaining
TextBudget ==
  /\ bpc = "start"
  /\ TokLen(binp.intro_chars) <= binp.token_limit
  /\ LET intro_tokens == TokLen(binp.intro_chars)
         text_parts == TextParts(binp)
         over == intro_tokens + TextTokens(text_parts) > binp.token_limit
         kept == IF over
                   THEN TrimParts(text_parts, Max2(0, binp.token_limit - intro_tokens))
                   ELSE text_parts
         used == intro_tokens + TextTokens(kept)
     IN /\ btext' = kept
        /\ bsel' = [bsel EXCEPT !.used_tokens = used,
                                !.remaining = Max2(0, binp.token_limit - used),
                                !.trimmed = over]
  /\ bpc' = "order"
  /\ UNCHANGED <<binp, bord, bparts, notBud>>

\* per_page, candidates, early, rest, ordered
OrderCandidates ==
  /\ bpc = "order"
  /\ bord' = [ordered |-> Ordered(binp), i |-> 1]
  /\ bpc' = "greedy"
  /\ UNCHANGED <<binp, btext, bsel, bparts, notBud>>

\* one iteration of "for c in ordered"
GreedyStep ==
  /\ bpc = "greedy"
  /\ bord.i <= Len(bord.ordered)
  /\ LET c == bord.ordered[bord.i]
         c_tokens == EstimateTokens(binp, c)
     IN bsel' =
          IF bsel.remaining < c_tokens
            THEN [bsel EXCEPT !.skipped_due_budget = @ + 1]
          ELSE IF c.kind = "page"
            THEN [bsel EXCEPT !.selected_pages_full = @ \cup {c.page},
                              !.remaining = @ - c_tokens,
                              !.image_tokens_spent = @ + c_tokens]
          ELSE IF c.page \in bsel.selected_pages_full
            THEN bsel
          ELSE [bsel EXCEPT !.selected_images = @ \cup {c.id},
                            !.remaining = @ - c_tokens,
                            !.image_tokens_spent = @ + c_tokens]
  /\ bord' = [bord EXCEPT !.i = @ + 1]
  /\ UNCHANGED <<binp, bpc, btext, bparts, notBud>>

\* best candidate of the adaptive fallback: the first page candidate of
\* ordered, else ordered[0]
BestCandidate(ordered) ==
  IF \E k \in DOMAIN ordered : ordered[k].kind = "page"
    THEN ordered[CHOOSE k \in DOMAIN ordered :
                   /\ ordered[k].kind = "page"
                   /\ \A j \in 1..(k - 1) : ordered[j].kind # "page"]
    ELSE ordered[1]

\* the adaptive fallback block, entered after the greedy walk
AdaptiveFallback ==
  /\ bpc = "greedy"
  /\ bord.i > Len(bord.ordered)
  /\ LET afford == Max2(0, bsel.remaining - Safety)
         best == BestCandidate(bord.ordered)
         target_tiles == Max2(1, Min2(MaxTiles, (afford - BaseTokens) \div TileTokens))
         per_side == CeilSqrt(target_tiles)
         longest_target == Max2(1, per_side * TilePx)
         chosen_tokens == BaseTokens + TileTokens * (per_side * per_side)
     IN bsel' =
          IF /\ bsel.selected_pages_full = {}
             /\ bsel.selected_images = {}
             /\ bord.ordered # <<>>
             /\ afford >= BaseTokens + TileTokens * 1
            THEN IF best.kind = "page"
              THEN [bsel EXCEPT
                      !.render_px_override =
                         (<<"page", best.page>> :> Min2(binp.page_render_max_px, longest_target)) @@ @,
                      !.selected_pages_full = @ \cup {best.page},
                      !.image_tokens_spent = @ + chosen_tokens,
                      !.remaining = Max2(0, @ - chosen_tokens),
                      !.fallback = TRUE]
              ELSE [bsel EXCEPT
                      !.render_px_override =
                         (<<"id", best.id>> :> Min2(binp.image_render_max_px, longest_target)) @@ @,
                      !.selected_images = @ \cup {best.id},
                      !.image_tokens_spent = @ + chosen_tokens,
                      !.remaining = Max2(0, @ - chosen_tokens),
                      !.fallback = TRUE]
            ELSE bsel
  /\ bpc' = "assemble"
  /\ UNCHANGED <<binp, btext, bord, bparts, notBud>>

\* "if t: parts.append(text)": the page's text, if any is left after trimming
PageText(text_parts, p) ==
  LET ts == SelectSeq(text_parts, LAMBDA t : t.page = p /\ t.chars > 0)
  IN [k \in 1..Len(ts) |-> [type |-> "text", page |-> p, key |-> <<"text", p>>]]

\* the rendered page if the page is selected in full, else the page's
\* selected images by id; a render that yields nothing (bad) adds no part
PageImages(inp, sel, bad, p) ==
  LET cands == ImageCandidates(inp.imgs, 1, 1)
      metas == SelectSeq(cands, LAMBDA m : m.page = p /\ m.id \in sel.selected_images
                                            /\ <<"id", m.id>> \notin bad)
  IN IF p \in sel.selected_pages_full
       THEN IF <<"page", p>> \in bad THEN <<>>
            ELSE <<[type |-> "image_url", page |-> p, key |-> <<"page", p>>]>>
       ELSE [k \in 1..Len(metas) |->
               [type |-> "image_url", page |-> p, key |-> <<"id", metas[k].id>>]]

\* an assembly that would put a page's images before its text
PagePartsImagesFirst(inp, text_parts, sel, bad, p) ==
  PageImages(inp, sel, bad, p) \o PageText(text_parts, p)

\* one iteration of "for p in pages_in_doc": text, then images
PageParts(inp, text_parts, sel, bad, p) ==
  PageText(text_parts, p) \o PageImages(inp, sel, bad, p)

\* pages_in_doc = sorted(pages with text or with an image candidate)
PagesInDoc(inp) ==
  {p \in 1..Len(inp.page_chars) : inp.page_chars[p] > 0 \/ inp.imgs[p] # <<>>}

RECURSIVE PagesParts(_, _, _, _, _)
PagesParts(inp, text_parts, sel, bad, p) ==
  IF p > Len(inp.page_chars) THEN <<>>
  ELSE (IF p \in PagesInDoc(inp) THEN PageParts(inp, text_parts, sel, bad, p) ELSE <<>>)
       \o PagesParts(inp, text_parts, sel, bad, p + 1)

SelectedKeys(sel) ==
  {<<"page", p>> : p \in sel.selected_pages_full} \cup {<<"id", i>> : i \in sel.selected_images}

\* final assembly: the intro, then the pages in ascending order
Assemble(bad) ==
  /\ bpc = "assemble"
  /\ bparts' = <<[type |-> "text", page |-> 0, key |-> <<"intro", 0>>]>>
                 \o PagesParts(binp, btext, bsel, bad, 1)
  /\ bpc' = "done"
  /\ UNCHANGED <<binp, btext, bord, bsel, notBud>>

\* ------------------------------------------------------------------------
\* Text budgets: ai_common.tokenize_text, ai_common.apply_text_budget,
\* ai_tasks.analyze_text and the trimming loop of ai_tasks.analyze_combined
\* ------------------------------------------------------------------------
\* A text is the sequence of the character lengths of its cl100k_base
\* tokens; "" is <<>>.
NoTextCall == [op |-> "none"]

\* len(text)
Chars(text) == SumSeq(text)

\* text[:n]: the tokens that fit in n characters; a token cut in the middle
\* keeps its first characters, which encode to one token
RECURSIVE Slice(_, _)
Slice(text, n) ==
  IF n <= 0 \/ text = <<>> THEN <<>>
  ELSE IF Head(text) <= n THEN <<Head(text)>> \o Slice(Tail(text), n - Head(text))
  ELSE <<n>>

\* tokenize_text: len(enc.encode(text)) where tiktoken and its encoding can be
\* loaded, else max(1, len(text) // 4)
TokenizeText(env, text) ==
  IF env = "tiktoken" THEN Len(text) ELSE Max2(1, Chars(text) \div 4)

\* apply_text_budget; cut = int(len(user_text) * (budget / max(1, user_tokens)))
ApplyTextBudget(env, system_text, user_text, token_limit) ==
  LET intro_tokens == TokenizeText(env, system_text)
      user_tokens == TokenizeText(env, user_text)
      total == intro_tokens + user_tokens
      budget == Max2(0, token_limit - intro_tokens)
      cut == (Chars(user_text) * budget) \div Max2(1, user_tokens)
      trimmed == IF user_tokens > 0 /\ budget < user_tokens
                   THEN Slice(user_text, Max2(1, cut))
                   ELSE user_text
  IN IF intro_tokens > token_limit
       THEN [abort |-> TRUE, reason |-> "intro_exceeds_limit", user_text |-> user_text,
             intro_tokens |-> intro_tokens, used_tokens |-> intro_tokens]
     ELSE IF total > token_limit
       THEN [abort |-> FALSE, reason |-> "<None>", user_text |-> trimmed,
             intro_tokens |-> intro_tokens,
             used_tokens |-> intro_tokens + TokenizeText(env, trimmed)]
     ELSE [abort |-> FALSE, reason |-> "<None>", user_text |-> user_text,
           intro_tokens |-> intro_tokens, used_tokens |-> total]

\* one call of analyze_text up to the request: an aborted budget returns
\* (None, ...), else messages = [system, budgeted user]
AnalyzeText(env, system_text, user_text, token_limit) ==
  /\ tb = NoTextCall
  /\ LET budget == ApplyTextBudget(env, system_text, user_text, token_limit)
     IN tb' = [op |-> "analyze_text", env |-> env, system |-> system_text,
               user |-> user_text, token_limit |-> token_limit, budget |-> budget,
               messages |-> IF budget.abort THEN <<>>
                            ELSE <<system_text, budget.user_text>>]
  /\ UNCHANGED <<jmVars, docVars, budVars, cacheVars, pipeVars, tagVars, threadVars,
                 clientVars, pollVars>>

\* the proportional trimming loop of analyze_combined over text_parts =
\* [(page, text)]: tgt = int(tok * budget / total_pages), pages with tgt <= 0
\* dropped, else t[:max(1, int(len(t) * (tgt / max(1, tok))))]
TrimTexts(env, text_parts, budget) ==
  LET toks == [k \in 1..Len(text_parts) |-> TokenizeText(env, text_parts[k].text)]
      total_pages == IF SumSeq(toks) = 0 THEN 1 ELSE SumSeq(toks)
      tgt(k) == (toks[k] * budget) \div total_pages
      cut(k) == (Chars(text_parts[k].text) * tgt(k)) \div Max2(1, toks[k])
      keep == SelectSeq([k \in 1..Len(text_parts) |-> k], LAMBDA k : tgt(k) > 0)
  IN [j \in 1..Len(keep) |->
        [page |-> text_parts[keep[j]].page,
         text |-> Slice(text_parts[keep[j]].text, Max2(1, cut(keep[j])))]]

\* one call of analyze_combined from intro_tokens to used_tokens / remaining
TrimPages(env, intro, texts, token_limit) ==
  /\ tb = NoTextCall
  /\ LET text_parts == [k \in 1..Len(texts) |-> [page |-> k, text |-> texts[k]]]
         intro_tokens == TokenizeText(env, intro)
         page_tokens == [k \in 1..Len(texts) |-> TokenizeText(env, texts[k])]
         sum_text == intro_tokens + SumSeq(page_tokens)
         over == sum_text > token_limit
         kept == IF over THEN TrimTexts(env, text_parts, Max2(0, token_limit - intro_tokens))
                 ELSE text_parts
         used_tokens == intro_tokens
                          + SumSeq([k \in 1..Len(kept) |-> TokenizeText(env, kept[k].text)])
     IN tb' = IF intro_tokens > token_limit
                THEN [op |-> "analyze_combined", env |-> env, intro |-> intro,
                      text_parts |-> text_parts, token_limit |-> token_limit,
                      aborted |-> TRUE, trimmed |-> FALSE, kept |-> <<>>,
                      used_tokens |-> 0, remaining |-> 0]
                ELSE [op |-> "analyze_combined", env |-> env, intro |-> intro,
                      text_parts |-> text_parts, token_limit |-> token_limit,
                      aborted |-> FALSE, trimmed |-> over, kept |-> kept,
                      used_tokens |-> used_tokens,
                      remaining |-> Max2(0, token_limit - used_tokens)]
  /\ UNCHANGED <<jmVars, docVars, budVars, cacheVars, pipeVars, tagVars, threadVars,
                 clientVars, pollVars>>

\* ------------------------------------------------------------------------
\* Cache: cache.py
\* ------------------------------------------------------------------------
DefaultTtl == 86400

\* the module as imported: enabled, default TTL, nothing cached yet
CacheLoaded ==
  /\ ccfg = [enabled |-> TRUE, ttl_seconds |-> DefaultTtl]
  /\ cfiles = <<>>
  /\ cnow = StartTime
  /\ cwritten = <<>>
  /\ clast = [op |-> "none"]
  /\ cthr = <<>>
  /\ llast = [fn |-> "none"]

\* _path_for: <base>/<bucket>/<key[:2]>/<key>.json
PathFor(bucket, key) == <<bucket, SubSeq(key, 1, 2), key \o <<".json">> >>

\* json.dump(payload): the members of the payload and of the data dict in
\* writing order
JsonDump(payload) ==
  <<"created_at", payload.created_at, "expires_at", payload.expires_at,
    "data", "text", payload.data.text, "usage", "cost", payload.data.usage.cost>>

\* json.load(f): the object the text denotes
JsonLoad(text) ==
  [created_at |-> text[2], expires_at |-> text[4],
   data |-> [text |-> text[7], usage |-> [cost |-> text[10]]]]

\* a get that would still serve an entry at the instant it expires
GetOutcomeLate(cfg, files, now, p) ==
  IF ~cfg.enabled THEN [result |-> <<>>, unlink |-> FALSE]
  ELSE IF p \notin DOMAIN files THEN [result |-> <<>>, unlink |-> FALSE]
  ELSE LET obj == JsonLoad(files[p].text)
           exp == IF obj.expires_at <= 0 THEN files[p].mtime + cfg.ttl_seconds
                  ELSE obj.expires_at
       IN IF now > exp THEN [result |-> <<>>, unlink |-> TRUE]
          ELSE [result |-> <<obj.data>>, unlink |-> FALSE]

\* get: what it returns (<<>> for None, <<data>> for a hit) and whether it
\* unlinks the file
GetOutcome(cfg, files, now, p) ==
  IF ~cfg.enabled THEN [result |-> <<>>, unlink |-> FALSE]
  ELSE IF p \notin DOMAIN files THEN [result |-> <<>>, unlink |-> FALSE]
  ELSE LET obj == JsonLoad(files[p].text)
           exp == IF obj.expires_at <= 0 THEN files[p].mtime + cfg.ttl_seconds
                  ELSE obj.expires_at
       IN IF now >= exp THEN [result |-> <<>>, unlink |-> TRUE]
          ELSE [result |-> <<obj.data>>, unlink |-> FALSE]

Without(f, p) == [q \in DOMAIN f \ {p} |-> f[q]]

\* cache.configure(enabled=..., ttl_seconds=...); <<>> stands for None
Configure(enabled, ttl_seconds) ==
  /\ ccfg' = [enabled |-> IF enabled = <<>> THEN ccfg.enabled ELSE enabled[1],
              ttl_seconds |-> IF ttl_seconds = <<>> THEN ccfg.ttl_seconds ELSE ttl_seconds[1]]
  /\ ccfg' # ccfg
  /\ UNCHANGED <<cfiles, cnow, cwritten, clast, notCache>>

\* cache.get(bucket, key)
Get(bucket, key) ==
  LET p == PathFor(bucket, key)
      out == GetOutcome(ccfg, cfiles, cnow, p)
  IN /\ cfiles' = IF out.unlink THEN Without(cfiles, p) ELSE cfiles
     /\ clast' = [op |-> "get", path |-> p, result |-> out.result, now |-> cnow,
                  enabled |-> ccfg.enabled]
     /\ UNCHANGED <<ccfg, cnow, cwritten, notCache>>

\* cache.set(bucket, key, data): the payload is written to a temporary file
\* that replaces the entry; d is the time that passes between the two
\* time.time() calls
Set(bucket, key, data, d) ==
  LET p == PathFor(bucket, key)
      payload == [created_at |-> cnow, expires_at |-> cnow + d + ccfg.ttl_seconds,
                  data |-> data]
  IN /\ cnow + d <= StartTime + MaxTicks
     /\ IF ccfg.enabled
          THEN /\ cfiles' = (p :> [mtime |-> cnow + d, text |-> JsonDump(payload)]) @@ cfiles
               /\ cwritten' = (p :> [v |-> data, expires_at |-> payload.expires_at]) @@ cwritten
               /\ cnow' = cnow + d
          ELSE /\ d = 0
               /\ UNCHANGED <<cfiles, cwritten, cnow>>
     /\ clast' = [op |-> "set", path |-> p, enabled |-> ccfg.enabled]
     /\ UNCHANGED <<ccfg, notCache>>

\* time passes
Tick ==
  /\ cnow < StartTime + MaxTicks
  /\ cnow' = cnow + 1
  /\ UNCHANGED <<ccfg, cfiles, cwritten, clast, notCache>>

\* ---- get and set called by several threads: each step is one file
\* ---- system call, steps of different threads interleave ----
notCacheThreads == <<jmVars, docVars, budVars, pipeVars, tagVars, clientVars, pollVars, textVars>>

\* the one entry the threads contend for
SharedPath == PathFor("chat", <<"a", "b", "1">>)

\* json.load succeeds on a text: it has all the members json.dump writes
IsDocument(text) ==
  Len(text) = Len(JsonDump([created_at |-> 0, expires_at |-> 0,
                            data |-> [text |-> "", usage |-> [cost |-> 0]]]))

ThreadIdle ==
  [pc |-> "idle", op |-> "none", text |-> <<>>, data |-> <<>>, result |-> <<>>,
   why |-> "none", startw |-> <<>>, now |-> 0]

Returns(t, rec) ==
  cthr' = [cthr EXCEPT !.thr[t] = [rec EXCEPT !.pc = "returned"]]

CanStart(t) ==
  /\ cthr.thr[t].pc \in {"idle", "returned"}
  /\ cthr.started < MaxOps

\* get, lines 53-58: the enabled flag and p.exists()
GetExists(t) ==
  LET rec == [ThreadIdle EXCEPT !.op = "get", !.now = cnow,
                !.startw = IF SharedPath \in DOMAIN cwritten
                             THEN <<cwritten[SharedPath]>> ELSE <<>>]
  IN /\ CanStart(t)
     /\ cthr' = [thr |-> [cthr.thr EXCEPT ![t] =
                   IF ccfg.enabled /\ SharedPath \in DOMAIN cfiles
                     THEN [rec EXCEPT !.pc = "open"]
                     ELSE [rec EXCEPT !.pc = "returned", !.why = "absent"]],
                 started |-> cthr.started + 1, sets |-> cthr.sets]
     /\ UNCHANGED <<ccfg, cfiles, cnow, cwritten, clast, notCacheThreads>>

\* get, lines 59-60: p.open() raises when the file is gone, json.load raises
\* on a document that is not complete; both end in "return None"
GetLoad(t) ==
  LET rec == cthr.thr[t]
  IN /\ rec.pc = "open"
     /\ IF SharedPath \notin DOMAIN cfiles
          THEN Returns(t, [rec EXCEPT !.why = "absent", !.now = cnow])
        ELSE IF ~IsDocument(cfiles[SharedPath].text)
          THEN Returns(t, [rec EXCEPT !.why = "error", !.now = cnow,
                                      !.text = cfiles[SharedPath].text])
        ELSE cthr' = [cthr EXCEPT !.thr[t] =
                        [rec EXCEPT !.pc = "check", !.text = cfiles[SharedPath].text]]
     /\ UNCHANGED <<ccfg, cfiles, cnow, cwritten, clast, notCacheThreads>>

\* get, lines 62-78: the expiry check on the object that was loaded; p.stat()
\* and p.unlink() act on whatever file is at the path now
GetExpiry(t) ==
  LET rec == cthr.thr[t]
      obj == JsonLoad(rec.text)
      mtime == IF SharedPath \in DOMAIN cfiles THEN cfiles[SharedPath].mtime
               ELSE IF obj.created_at # 0 THEN obj.created_at ELSE cnow
      out == GetOutcome(ccfg, SharedPath :> [mtime |-> mtime, text |-> rec.text],
                        cnow, SharedPath)
  IN /\ rec.pc = "check"
     /\ cfiles' = IF out.unlink /\ SharedPath \in DOMAIN cfiles
                    THEN Without(cfiles, SharedPath) ELSE cfiles
     /\ Returns(t, [rec EXCEPT !.result = out.result, !.now = cnow,
                               !.why = IF out.unlink THEN "expired" ELSE "hit"])
     /\ UNCHANGED <<ccfg, cnow, cwritten, clast, notCacheThreads>>

\* a set that would write the payload into the entry's own file
SetDumpInPlace(t, data) ==
  LET payload == [created_at |-> cnow, expires_at |-> cnow + ccfg.ttl_seconds,
                  data |-> data]
      rec == [ThreadIdle EXCEPT !.op = "set", !.now = cnow, !.data = <<data>>]
  IN /\ CanStart(t)
     /\ ccfg.enabled
     /\ cthr' = [thr |-> [cthr.thr EXCEPT ![t] =
                   [rec EXCEPT !.pc = "replace", !.text = JsonDump(payload)]],
                 started |-> cthr.started + 1, sets |-> cthr.sets]
     /\ cfiles' = (SharedPath :> [mtime |-> cnow, text |-> SubSeq(JsonDump(payload), 1, 4)])
                    @@ cfiles
     /\ UNCHANGED <<ccfg, cnow, cwritten, clast, notCacheThreads>>

\* set, lines 85-97: the enabled flag, mkstemp, and the payload dumped into
\* the temporary file, which no get ever opens
SetDump(t, data) ==
  LET payload == [created_at |-> cnow, expires_at |-> cnow + ccfg.ttl_seconds,
                  data |-> data]
      rec == [ThreadIdle EXCEPT !.op = "set", !.now = cnow, !.data = <<data>>]
  IN /\ CanStart(t)
     /\ cthr' = [thr |-> [cthr.thr EXCEPT ![t] =
                   IF ccfg.enabled
                     THEN [rec EXCEPT !.pc = "replace", !.text = JsonDump(payload)]
                     ELSE [rec EXCEPT !.pc = "returned"]],
                 started |-> cthr.started + 1, sets |-> cthr.sets]
     /\ UNCHANGED <<ccfg, cfiles, cnow, cwritten, clast, notCacheThreads>>

\* set, line 98: os.replace(tmp_path, p)
SetReplace(t) ==
  LET rec == cthr.thr[t]
  IN /\ rec.pc = "replace"
     /\ cfiles' = (SharedPath :> [mtime |-> rec.now, text |-> rec.text]) @@ cfiles
     /\ cwritten' = (SharedPath :> [v |-> rec.data[1],
                                    expires_at |-> JsonLoad(rec.text).expires_at,
                                    seq |-> cthr.sets + 1]) @@ cwritten
     /\ cthr' = [cthr EXCEPT !.thr[t] = [rec EXCEPT !.pc = "returned"],
                             !.sets = @ + 1]
     /\ UNCHANGED <<ccfg, cnow, clast, notCacheThreads>>

\* time passes while the threads run
ThreadTick ==
  /\ cnow < StartTime + MaxTicks
  /\ cnow' = cnow + 1
  /\ UNCHANGED <<ccfg, cfiles, cwritten, clast, cthr, notCacheThreads>>


\* ------------------------------------------------------------------------
\* LLM client: llm_client.run_chat, llm_client.run_vision
\* ------------------------------------------------------------------------
notClient == <<jmVars, docVars, budVars, pipeVars, tagVars, threadVars, pollVars, textVars>>

\* json.dumps of a bool
JsonBool(b) == IF b THEN "true" ELSE "false"

\* run_chat's key: the members of key_obj as json.dumps(sort_keys=True) writes
\* them; sha256 stands for itself (no two key strings share a digest)
ChatKey(req) ==
  <<JsonBool(req.has_schema), JsonBool(req.json_mode), req.max_tokens,
    req.messages, req.model, req.temperature, "chat", "1">>

\* run_vision's key: the image hashes, then the other members
VisionKey(req) ==
  <<"[">> \o req.images \o <<"]", req.max_tokens, req.model, req.messages,
                             req.temperature, "vision", "1">>

\* a miss that would store the response without its cost
ClientMissDropsCost(bucket, key, req, resp, d, out) ==
  LET p == PathFor(bucket, key)
      text == IF resp.text = "<None>" THEN "" ELSE resp.text
      data == [text |-> text, usage |-> [cost |-> resp.cost]]
      payload == [created_at |-> cnow + d, expires_at |-> cnow + d + ccfg.ttl_seconds,
                  data |-> [data EXCEPT !.usage.cost = 0]]
      afterGet == IF out.unlink THEN Without(cfiles, p) ELSE cfiles
  IN /\ cnow + d <= StartTime + MaxTicks
     /\ cnow' = cnow + d
     /\ cfiles' = IF ccfg.enabled
                    THEN (p :> [mtime |-> cnow + d, text |-> JsonDump(payload)]) @@ afterGet
                    ELSE afterGet
     /\ cwritten' = IF ccfg.enabled
                      THEN (p :> [v |-> data, expires_at |-> payload.expires_at]) @@ cwritten
                      ELSE cwritten
     /\ llast' = [fn |-> req.fn, req |-> req, path |-> <<p>>, transport |-> TRUE,
                  text |-> text,
                  usage |-> [cost |-> resp.cost, saved_cost |-> <<0>>, cache_hit |-> <<FALSE>>],
                  prev |-> IF p \in DOMAIN cwritten THEN <<cwritten[p]>> ELSE <<>>,
                  now |-> cnow, enabled |-> ccfg.enabled]

\* a miss: the transport call, the cost, and the response stored (if the
\* cache is enabled) and returned
ClientMiss(bucket, key, req, resp, d, out) ==
  LET p == PathFor(bucket, key)
      text == IF resp.text = "<None>" THEN "" ELSE resp.text
      data == [text |-> text, usage |-> [cost |-> resp.cost]]
      payload == [created_at |-> cnow + d, expires_at |-> cnow + d + ccfg.ttl_seconds,
                  data |-> data]
      afterGet == IF out.unlink THEN Without(cfiles, p) ELSE cfiles
  IN /\ cnow + d <= StartTime + MaxTicks
     /\ cnow' = cnow + d
     /\ cfiles' = IF ccfg.enabled
                    THEN (p :> [mtime |-> cnow + d, text |-> JsonDump(payload)]) @@ afterGet
                    ELSE afterGet
     /\ cwritten' = IF ccfg.enabled
                      THEN (p :> [v |-> data, expires_at |-> payload.expires_at]) @@ cwritten
                      ELSE cwritten
     /\ llast' = [fn |-> req.fn, req |-> req, path |-> <<p>>, transport |-> TRUE,
                  text |-> text,
                  usage |-> [cost |-> resp.cost, saved_cost |-> <<0>>, cache_hit |-> <<FALSE>>],
                  prev |-> IF p \in DOMAIN cwritten THEN <<cwritten[p]>> ELSE <<>>,
                  now |-> cnow, enabled |-> ccfg.enabled]

\* the cache lookup and what follows it: on a hit the cached text with cost 0
\* and the cached cost as saved_cost, no transport call
ClientCall(bucket, key, req, resp, d) ==
  LET p == PathFor(bucket, key)
      out == GetOutcome(ccfg, cfiles, cnow, p)
  IN /\ IF out.result # <<>>
          THEN /\ d = 0
               /\ llast' = [fn |-> req.fn, req |-> req, path |-> <<p>>, transport |-> FALSE,
                            text |-> out.result[1].text,
                            usage |-> [cost |-> 0,
                                       saved_cost |-> <<out.result[1].usage.cost>>,
                                       cache_hit |-> <<TRUE>>],
                            prev |-> IF p \in DOMAIN cwritten THEN <<cwritten[p]>> ELSE <<>>,
                            now |-> cnow, enabled |-> ccfg.enabled]
               /\ UNCHANGED <<cfiles, cnow, cwritten>>
          ELSE ClientMiss(bucket, key, req, resp, d, out)
     /\ UNCHANGED <<ccfg, clast, notClient>>

RunChat(req, resp, d) ==
  /\ req.fn = "run_chat"
  /\ ClientCall("chat", ChatKey(req), req, resp, d)

\* run_vision: without images it returns "" and {"cost": 0.0} at once
RunVision(req, resp, d) ==
  /\ req.fn = "run_vision"
  /\ IF req.images = <<>>
       THEN /\ d = 0
            /\ llast' = [fn |-> req.fn, req |-> req, path |-> <<>>, transport |-> FALSE,
                         text |-> "",
                         usage |-> [cost |-> 0, saved_cost |-> <<>>, cache_hit |-> <<>>],
                         prev |-> <<>>, now |-> cnow, enabled |-> ccfg.enabled]
            /\ UNCHANGED <<ccfg, cfiles, cnow, cwritten, clast, notClient>>
       ELSE ClientCall("vision", VisionKey(req), req, resp, d)

\* time passes / the cache is switched off and on between calls
ClientTick ==
  /\ cnow < StartTime + MaxTicks
  /\ cnow' = cnow + 1
  /\ UNCHANGED <<ccfg, cfiles, cwritten, clast, llast, notClient>>


\* ------------------------------------------------------------------------
\* JobManager
\* ------------------------------------------------------------------------
Kinds == {"ocr", "text", "image"}

NoPipe == [active |-> FALSE]

\* __init__: _stop_event clear, _finalized_kinds empty, no status thread
PollIdle ==
  [pc |-> "idle", stop |-> FALSE, finalized |-> {},
   emitted |-> [k \in Kinds |-> 0]]

\* JobManager.__init__: max(1, int(n or 1)) worker counts, empty tables
JmConstructed(ow, aw) ==
  /\ jobs = <<>>
  /\ futures = <<>>
  /\ runner = <<>>
  /\ queue = [ocr |-> <<>>, ai |-> <<>>]
  /\ workers = [ocr |-> IF ow < 1 THEN 1 ELSE ow, ai |-> IF aw < 1 THEN 1 ELSE aw]
  /\ mainPc = "adding"
  /\ cursor = 0
  /\ tally = <<>>
  /\ poll = PollIdle

\* no run callable of run_jobs_parallel exists
PipeIdle ==
  /\ pcall = <<>>
  /\ precs = <<>>

JmIdle ==
  /\ JmConstructed(1, 1)
  /\ pipe = NoPipe
  /\ PipeIdle

JobIdSet == {jobs[i].id : i \in DOMAIN jobs}

JobPos(id) == CHOOSE i \in DOMAIN jobs : jobs[i].id = id

StatusOf(id) == jobs[JobPos(id)].status

KindOf(id) == jobs[JobPos(id)].kind

\* which executor run() submits a job of this kind to
PoolOf(kind) == IF kind = "ocr" THEN "ocr" ELSE "ai"

CountStatus(st) == Cardinality({i \in DOMAIN jobs : jobs[i].status = st})

\* the lock of _mark is held by run() during the whole submission
LockFree == mainPc \notin {"submit_ocr", "submit_ai"}

\* JobManager._mark
Mark(id, st) ==
  [i \in DOMAIN jobs |-> IF jobs[i].id = id THEN [jobs[i] EXCEPT !.status = st] ELSE jobs[i]]

\* JobManager.add_job
AddJobTo(js, id, kind, deps) ==
  Append(js, [id |-> id, kind |-> kind, deps |-> deps, status |-> "pending"])

\* wiring that would wait on every dep that names an added job
WaitForAdded(deps) == SelectSeq(deps, LAMBDA d : d \in JobIdSet)

\* [self._futures[d] for d in job.deps if d in self._futures]
WaitFor(deps) == SelectSeq(deps, LAMBDA d : d \in DOMAIN futures)

\* JobManager._submit_with_status + self._futures[job.id] = fut
SubmitWithStatus(job) ==
  /\ runner' = (job.id :> [pc |-> "queued", i |-> 1, wait_for |-> WaitFor(job.deps)]) @@ runner
  /\ futures' = (job.id :> "pending") @@ futures
  /\ queue' = [queue EXCEPT ![PoolOf(job.kind)] = Append(@, job.id)]

\* ---- the thread that builds the job table and calls run() ----

GenericIds == {<<"job", n>> : n \in 1..MaxJobs}

\* the deps lists a caller may pass: ids of jobs added before, after or never
DepLists(ids) ==
  (IF MaxDeps >= 1 THEN {<<d>> : d \in ids} ELSE {})
    \cup (IF MaxDeps >= 2 THEN {p \in ids \X ids : p[1] # p[2]} ELSE {})
    \cup {<<>>}

\* add_job(Job(id, kind, run, deps)): ids are unique (a duplicate raises
\* ValueError and adds nothing), so the n-th job added is named <<"job", n>>
AddJob(kind, deps) ==
  /\ mainPc = "adding"
  /\ ~pipe.active
  /\ Len(jobs) < MaxJobs
  /\ jobs' = AddJobTo(jobs, <<"job", Len(jobs) + 1>>, kind, deps)
  /\ UNCHANGED <<futures, runner, queue, workers, mainPc, cursor, tally, pipe, notJm>>

\* ---- autoPDFtagger.run_jobs_parallel: the job table of the document pipeline ----

\* deps of a document's text job, when the image job is left out of them
TextDepsOcrOnly(p, n) ==
  IF p.enable_ocr THEN << <<"ocr", n>> >> ELSE <<>>

\* an image job that would not wait for its document's OCR job
ImageDepsNone(p, n) == <<>>

\* text deps that would also name the previous document's text job
TextDepsAcrossDocuments(p, n) ==
  (IF p.enable_ocr THEN << <<"ocr", n>> >> ELSE <<>>)
    \o (IF p.do_image THEN << <<"image", n>> >> ELSE <<>>)
    \o (IF n > 1 THEN << <<"text", n - 1>> >> ELSE <<>>)

\* deps of the image job of document n: [ocr_id] if enable_ocr else []
ImageDeps(p, n) ==
  IF p.enable_ocr THEN << <<"ocr", n>> >> ELSE <<>>

\* deps of the text job of document n: [ocr_id] if enable_ocr, then the
\* image job's id appended if do_image
TextDeps(p, n) ==
  (IF p.enable_ocr THEN << <<"ocr", n>> >> ELSE <<>>)
    \o (IF p.do_image THEN << <<"image", n>> >> ELSE <<>>)

\* "if not (do_text or do_image): return"
PipeSkip ==
  /\ pipe.active
  /\ mainPc = "adding"
  /\ ~(pipe.do_text \/ pipe.do_image)
  /\ mainPc' = "skipped"
  /\ UNCHANGED <<jobs, futures, runner, queue, workers, cursor, tally, pipe, notJm>>

\* one iteration of "for document in self.file_list.pdf_documents.values()"
PipeAddDoc ==
  /\ pipe.active
  /\ mainPc = "adding"
  /\ pipe.do_text \/ pipe.do_image
  /\ pipe.next <= pipe.docs
  /\ LET n == pipe.next
         j1 == IF pipe.enable_ocr THEN AddJobTo(jobs, <<"ocr", n>>, "ocr", <<>>) ELSE jobs
         j2 == IF pipe.do_image
                 THEN AddJobTo(j1, <<"image", n>>, "image", ImageDeps(pipe, n)) ELSE j1
         j3 == IF pipe.do_text
                 THEN AddJobTo(j2, <<"text", n>>, "text", TextDeps(pipe, n)) ELSE j2
     IN jobs' = j3
  /\ pipe' = [pipe EXCEPT !.next = @ + 1]
  /\ UNCHANGED <<futures, runner, queue, workers, mainPc, cursor, tally, notJm>>

\* "pending, running, done, failed = jm.run()": entry of run()
PipeRun ==
  /\ pipe.active
  /\ mainPc = "adding"
  /\ pipe.do_text \/ pipe.do_image
  /\ pipe.next > pipe.docs
  /\ mainPc' = "submit_ocr"
  /\ cursor' = 1
  /\ UNCHANGED <<jobs, futures, runner, queue, workers, tally, pipe, notJm>>

\* run(): entry, up to taking the lock for the submission loops
RunStart ==
  /\ mainPc = "adding"
  /\ ~pipe.active
  /\ mainPc' = "submit_ocr"
  /\ cursor' = 1
  /\ UNCHANGED <<jobs, futures, runner, queue, workers, tally, pipe, notJm>>

\* first loop of run(): one iteration, "if job.kind != 'ocr': continue"
SubmitOcr ==
  /\ mainPc = "submit_ocr"
  /\ cursor <= Len(jobs)
  /\ IF jobs[cursor].kind = "ocr"
       THEN SubmitWithStatus(jobs[cursor])
       ELSE UNCHANGED <<futures, runner, queue>>
  /\ cursor' = cursor + 1
  /\ UNCHANGED <<jobs, workers, mainPc, tally, pipe, notJm>>

OcrLoopDone ==
  /\ mainPc = "submit_ocr"
  /\ cursor > Len(jobs)
  /\ mainPc' = "submit_ai"
  /\ cursor' = 1
  /\ UNCHANGED <<jobs, futures, runner, queue, workers, tally, pipe, notJm>>

\* second loop of run(): one iteration, "if job.kind == 'ocr': continue"
SubmitAi ==
  /\ mainPc = "submit_ai"
  /\ cursor <= Len(jobs)
  /\ IF jobs[cursor].kind # "ocr"
       THEN SubmitWithStatus(jobs[cursor])
       ELSE UNCHANGED <<futures, runner, queue>>
  /\ cursor' = cursor + 1
  /\ UNCHANGED <<jobs, workers, mainPc, tally, pipe, notJm>>

\* end of "with self._lock": the lock is released, run() waits in as_completed
AiLoopDone ==
  /\ mainPc = "submit_ai"
  /\ cursor > Len(jobs)
  /\ mainPc' = "waiting"
  /\ UNCHANGED <<jobs, futures, runner, queue, workers, cursor, tally, pipe, notJm>>

AllFuturesDone == \A id \in DOMAIN futures : futures[id] \in {"ok", "exc"}

\* as_completed() is exhausted, the pools are shut down, the final counts are
\* taken under the lock and returned
RunReturn ==
  /\ mainPc = "waiting"
  /\ AllFuturesDone
  /\ tally' = <<CountStatus("pending"), CountStatus("running"),
                CountStatus("done"), CountStatus("failed")>>
  /\ mainPc' = "returned"
  /\ UNCHANGED <<jobs, futures, runner, queue, workers, cursor, pipe, notJm>>

\* ---- the pool workers, each executing runner() of one job ----

\* a pool that would count a worker as taken only while job.run() executes
BusyRunningOnly(pool) ==
  {id \in DOMAIN runner :
     /\ PoolOf(KindOf(id)) = pool
     /\ runner[id].pc = "running"}

\* the runners that occupy a worker thread of the pool
Busy(pool) ==
  {id \in DOMAIN runner :
     /\ PoolOf(KindOf(id)) = pool
     /\ runner[id].pc \in {"deps", "running", "return", "raise"}}

\* a free worker of the pool takes the oldest queued work item
Take(id) ==
  /\ queue[PoolOf(KindOf(id))] # <<>>
  /\ Head(queue[PoolOf(KindOf(id))]) = id
  /\ Cardinality(Busy(PoolOf(KindOf(id)))) < workers[PoolOf(KindOf(id))]
  /\ queue' = [queue EXCEPT ![PoolOf(KindOf(id))] = Tail(@)]
  /\ runner' = [runner EXCEPT ![id].pc = "deps"]
  /\ UNCHANGED <<jobs, futures, workers, mainPc, cursor, tally, pipe, notJm>>

\* runner(): f.result() of the next dependency returned normally
DepOk(id) ==
  /\ runner[id].pc = "deps"
  /\ runner[id].i <= Len(runner[id].wait_for)
  /\ runner[id].wait_for[runner[id].i] \in DOMAIN futures
  /\ futures[runner[id].wait_for[runner[id].i]] = "ok"
  /\ runner' = [runner EXCEPT ![id].i = @ + 1]
  /\ UNCHANGED <<jobs, futures, queue, workers, mainPc, cursor, tally, pipe, notJm>>

\* runner(): f.result() raised; "raise RuntimeError('Dependency failed')"
\* leaves runner() without any _mark and the executor stores the exception
DepFailed(id) ==
  /\ runner[id].pc = "deps"
  /\ runner[id].i <= Len(runner[id].wait_for)
  /\ runner[id].wait_for[runner[id].i] \in DOMAIN futures
  /\ futures[runner[id].wait_for[runner[id].i]] = "exc"
  /\ runner' = [runner EXCEPT ![id].pc = "finished"]
  /\ futures' = [futures EXCEPT ![id] = "exc"]
  /\ UNCHANGED <<jobs, queue, workers, mainPc, cursor, tally, pipe, notJm>>

\* runner(): self._mark(job.id, "running"), then job.run() is entered
MarkRunning(id) ==
  /\ runner[id].pc = "deps"
  /\ runner[id].i > Len(runner[id].wait_for)
  /\ LockFree
  /\ jobs' = Mark(id, "running")
  /\ runner' = [runner EXCEPT ![id].pc = "running"]
  /\ UNCHANGED <<futures, queue, workers, mainPc, cursor, tally, pipe, notJm>>

\* job.run() returned: self._mark(job.id, "done")
RunOk(id) ==
  /\ runner[id].pc = "running"
  /\ LockFree
  /\ jobs' = Mark(id, "done")
  /\ runner' = [runner EXCEPT ![id].pc = "return"]
  /\ UNCHANGED <<futures, queue, workers, mainPc, cursor, tally, pipe, notJm>>

\* a runner that would put a job whose run callable raised back to pending
\* and run it again
RunFailRetry(id) ==
  /\ runner[id].pc = "running"
  /\ LockFree
  /\ jobs' = Mark(id, "pending")
  /\ runner' = [runner EXCEPT ![id].pc = "deps"]
  /\ UNCHANGED <<futures, queue, workers, mainPc, cursor, tally, pipe, notJm>>

\* job.run() raised: self._mark(job.id, "failed", error), then re-raise
RunFail(id) ==
  /\ runner[id].pc = "running"
  /\ LockFree
  /\ jobs' = Mark(id, "failed")
  /\ runner' = [runner EXCEPT ![id].pc = "raise"]
  /\ UNCHANGED <<futures, queue, workers, mainPc, cursor, tally, pipe, notJm>>

\* runner() is left; the executor completes the future and frees the worker
Resolve(id) ==
  /\ runner[id].pc \in {"return", "raise"}
  /\ futures' = [futures EXCEPT ![id] = IF runner[id].pc = "return" THEN "ok" ELSE "exc"]
  /\ runner' = [runner EXCEPT ![id].pc = "finished"]
  /\ UNCHANGED <<jobs, queue, workers, mainPc, cursor, tally, pipe, notJm>>

MainStep == SubmitOcr \/ OcrLoopDone \/ SubmitAi \/ AiLoopDone \/ RunReturn

\* the steps of the scheduler's own threads
WorkerStep(id) ==
  /\ id \in DOMAIN runner
  /\ Take(id) \/ DepOk(id) \/ DepFailed(id) \/ MarkRunning(id) \/ Resolve(id)

\* the end of a job's run callable, either way
JobBody(id) ==
  /\ id \in DOMAIN runner
  /\ RunOk(id) \/ RunFail(id)

RunStep == MainStep \/ \E id \in DOMAIN runner : WorkerStep(id) \/ JobBody(id)

\* ---- the status thread started by run(): JobManager._status_loop ----
notPoll == <<jmVars, docVars, budVars, cacheVars, pipeVars, tagVars, threadVars, clientVars, textVars>>

KindCount(k, sts) ==
  Cardinality({i \in DOMAIN jobs : jobs[i].kind = k /\ jobs[i].status \in sts})

\* "while not self._stop_event.is_set()"; the thread exists once run() started
PollCheck ==
  /\ mainPc \notin {"adding", "skipped"}
  /\ poll.pc \in {"idle", "check"}
  /\ poll' = [poll EXCEPT !.pc = IF poll.stop THEN "exited" ELSE "snapshot"]
  /\ UNCHANGED notPoll

\* one pass of the loop body: the counts taken under the lock, the kinds
\* that drained and are not yet in _finalized_kinds, their final lines
PollSnapshot ==
  LET finished == {k \in Kinds \ poll.finalized :
                     /\ KindCount(k, {"pending", "running"}) = 0
                     /\ KindCount(k, {"done", "failed"}) > 0}
  IN /\ poll.pc = "snapshot"
     /\ LockFree
     /\ poll' = [poll EXCEPT !.pc = "wait",
                             !.finalized = @ \cup finished,
                             !.emitted = [k \in Kinds |->
                                            @[k] + IF k \in finished THEN 1 ELSE 0]]
     /\ UNCHANGED notPoll

\* "self._wakeup.wait(self._tick_interval)" returns, on a _mark or on the tick
PollWake ==
  /\ poll.pc = "wait"
  /\ poll' = [poll EXCEPT !.pc = "check"]
  /\ UNCHANGED notPoll

\* run(), "finally: self._stop_event.set()", once as_completed() is exhausted
RunStop ==
  /\ mainPc = "waiting"
  /\ AllFuturesDone
  /\ ~poll.stop
  /\ poll' = [poll EXCEPT !.stop = TRUE]
  /\ UNCHANGED notPoll

\* "self._status_thread.join(timeout=1.0)" returned because the thread ended;
\* then the pools are shut down and the counts returned
RunJoinReturn ==
  /\ poll.stop
  /\ poll.pc = "exited"
  /\ RunReturn

\* ---- the run callables run_jobs_parallel gives its jobs ----

\* how a text or image job's _run can go:
\*   "reply"            the LLM call returns a JSON object
\*   "malformed"        the LLM call returns text that is no JSON object
\*   "transport_raises" run_chat / run_vision raises
\*   "skipped"          analyze_* returns before the call (budget abort, dry run)
\*   "raises"           an exception outside analyze_*'s try blocks (building
\*                      the prompt from the document, logging the response)
Outcomes == {"reply", "malformed", "transport_raises", "skipped", "raises"}

\* analyze_text / analyze_combined: the response they return; a raised
\* transport call is caught and None ("<None>") is returned with cost 0
AnalyzeResponse(o) ==
  CASE o = "reply" -> "object"
    [] o = "malformed" -> "text"
    [] o = "transport_raises" -> "<None>"
    [] o = "skipped" -> "<None>"

\* "if response: doc.set_from_json(response)" (text) and "if isinstance(parsed,
\* dict): doc.set_from_json(response)" (image): only a JSON object reaches
\* set_from_dict; json.loads errors are caught
ApplyResponse(rec, kind, response) ==
  IF response = "object" THEN Append(rec, kind) ELSE rec

\* the _run of an ocr job: doc.get_pdf_text() returns or raises
OcrRun(id, ok) ==
  /\ pipe.active
  /\ runner[id].pc = "running"
  /\ KindOf(id) = "ocr"
  /\ LockFree
  /\ jobs' = Mark(id, IF ok THEN "done" ELSE "failed")
  /\ runner' = [runner EXCEPT ![id].pc = IF ok THEN "return" ELSE "raise"]
  /\ pcall' = (id :> (IF ok THEN "ok" ELSE "raises")) @@ pcall
  /\ UNCHANGED <<futures, queue, workers, mainPc, cursor, tally, pipe, precs, notJmPipe>>

\* the _run of a text or image job of document id[2], up to the _mark that
\* follows it in runner()
AiRun(id, o) ==
  /\ pipe.active
  /\ runner[id].pc = "running"
  /\ KindOf(id) # "ocr"
  /\ LockFree
  /\ precs' = IF o = "raises" THEN precs
              ELSE [precs EXCEPT ![id[2]] = ApplyResponse(@, KindOf(id), AnalyzeResponse(o))]
  /\ pcall' = (id :> o) @@ pcall
  /\ jobs' = Mark(id, IF o = "raises" THEN "failed" ELSE "done")
  /\ runner' = [runner EXCEPT ![id].pc = IF o = "raises" THEN "raise" ELSE "return"]
  /\ UNCHANGED <<futures, queue, workers, mainPc, cursor, tally, pipe, notJmPipe>>

\* ------------------------------------------------------------------------
\* Specifications
\* ------------------------------------------------------------------------
InitJM ==
  /\ tb = NoTextCall
  /\ \E ow \in 1..MaxWorkers, aw \in 1..MaxWorkers : JmConstructed(ow, aw)
  /\ pipe = NoPipe
  /\ PipeIdle
  /\ DocIdle
  /\ BudIdle
  /\ CacheLoaded

NextJM ==
  \/ \E k \in Kinds, d \in DepLists(GenericIds) : AddJob(k, d)
  \/ RunStart
  \/ MainStep
  \/ \E id \in DOMAIN runner : WorkerStep(id) \/ JobBody(id)

SpecJM == InitJM /\ [][NextJM]_vars

\* threads of a started run() keep being scheduled and every run callable
\* terminates; nothing obliges the caller to add jobs or to call run()
FairSpecJM == SpecJM /\ WF_vars(RunStep)

\* run_jobs_parallel over a file list of 0..MaxDocs documents; the worker
\* counts come from the configuration and may be below 1
InitPipe ==
  /\ tb = NoTextCall
  /\ \E ow \in 0..MaxWorkers, aw \in 0..MaxWorkers : JmConstructed(ow, aw)
  /\ \E t \in BOOLEAN, im \in BOOLEAN, o \in BOOLEAN, nd \in 0..MaxDocs :
       pipe = [active |-> TRUE, do_text |-> t, do_image |-> im, enable_ocr |-> o,
               docs |-> nd, next |-> 1]
  /\ pcall = <<>>
  /\ precs = [n \in 1..pipe.docs |-> <<>>]
  /\ DocIdle
  /\ BudIdle
  /\ CacheLoaded

NextPipe ==
  \/ PipeSkip
  \/ PipeAddDoc
  \/ PipeRun
  \/ MainStep
  \/ \E id \in DOMAIN runner : WorkerStep(id)
  \/ \E id \in DOMAIN runner : \E ok \in BOOLEAN : OcrRun(id, ok)
  \/ \E id \in DOMAIN runner : \E o \in Outcomes : AiRun(id, o)

SpecPipe == InitPipe /\ [][NextPipe]_vars

InitDoc == DocConstructed /\ TagsConstructed /\ JmIdle /\ BudIdle /\ CacheLoaded /\ tb = NoTextCall

NextDoc ==
  \/ \E f \in SimpleFields, v \in FieldValues, c \in Confidences : CallSetField(f, v, c)
  \/ \E v \in DateInputs, c \in Confidences : CallSetCreationDate(v, c)

SpecDoc == InitDoc /\ [][NextDoc]_vars

\* one call of analyze_combined on a document of 1..MaxPages pages
ImgDims == {<<200, 100>>, <<600, 800>>}

ImgLists == UNION {[1..n -> ImgDims] : n \in 0..MaxImgs}

InitBud ==
  /\ tb = NoTextCall
  /\ \E np \in 1..MaxPages :
     \E pc \in [1..np -> {0, 1191}], im \in [1..np -> ImgLists],
        tl \in {300, 400, 900, 1000, 2200}, pgt \in {2, 3}, pfp \in {1, 3},
        px \in {512, 1536}, tpi \in {0, 300} :
       binp = [token_limit |-> tl, intro_chars |-> 1600, page_chars |-> pc, imgs |-> im,
               page_w |-> 595, page_h |-> 842,
               page_group_threshold |-> pgt, priority_first_pages |-> pfp,
               page_render_max_px |-> px, image_render_max_px |-> px,
               tokens_per_image |-> tpi]
  /\ bpc = "start"
  /\ btext = <<>>
  /\ bord = [ordered |-> <<>>, i |-> 1]
  /\ bsel = NoSelection
  /\ bparts = <<>>
  /\ JmIdle
  /\ DocIdle
  /\ CacheLoaded

NextBud ==
  \/ IntroAbort
  \/ TextBudget
  \/ OrderCandidates
  \/ GreedyStep
  \/ AdaptiveFallback
  \/ \E bad \in SUBSET SelectedKeys(bsel) : Assemble(bad)

SpecBud == InitBud /\ [][NextBud]_vars

\* the cache as used by the LLM client: responses {"text", "usage": {"cost"}}
\* stored under hex keys in the buckets "chat" and "vision"
CacheEntries == {<<"chat", <<"a", "b", "1">> >>, <<"vision", <<"a", "b", "1">> >>}

CacheValues == {[text |-> "x", usage |-> [cost |-> 1]], [text |-> "", usage |-> [cost |-> 0]]}

Ttls == (0 - 1)..MaxTtl

InitCache == CacheLoaded /\ JmIdle /\ DocIdle /\ BudIdle /\ tb = NoTextCall

NextCache ==
  \/ \E en \in {<<>>, <<TRUE>>, <<FALSE>>}, t \in {<<>>} \cup {<<n>> : n \in Ttls} :
       Configure(en, t)
  \/ \E e \in CacheEntries : Get(e[1], e[2])
  \/ \E e \in CacheEntries, v \in CacheValues, d \in 0..1 : Set(e[1], e[2], v, d)
  \/ Tick

SpecCache == InitCache /\ [][NextCache]_vars

\* MaxThreads threads, all on one entry, after configure(ttl_seconds=MaxTtl)
InitThreads ==
  /\ tb = NoTextCall
  /\ ccfg = [enabled |-> TRUE, ttl_seconds |-> MaxTtl]
  /\ cfiles = <<>>
  /\ cnow = StartTime
  /\ cwritten = <<>>
  /\ clast = [op |-> "none"]
  /\ cthr = [thr |-> [t \in 1..MaxThreads |-> ThreadIdle], started |-> 0, sets |-> 0]
  /\ llast = [fn |-> "none"]
  /\ JmIdle /\ DocIdle /\ BudIdle

NextThreads ==
  \/ \E t \in 1..MaxThreads : GetExists(t)
  \/ \E t \in 1..MaxThreads : GetLoad(t)
  \/ \E t \in 1..MaxThreads : GetExpiry(t)
  \/ \E t \in 1..MaxThreads, v \in CacheValues : SetDump(t, v)
  \/ \E t \in 1..MaxThreads : SetReplace(t)
  \/ ThreadTick

SpecThreads == InitThreads /\ [][NextThreads]_vars

\* calls of the client: two chat requests that differ in json_mode only, a
\* vision request with one image and one without images
Requests ==
  {[fn |-> "run_chat", model |-> "m", messages |-> "q", json_mode |-> jm,
    has_schema |-> FALSE, temperature |-> "0.3", max_tokens |-> "null",
    images |-> <<>>] : jm \in BOOLEAN}
  \cup {[fn |-> "run_vision", model |-> "m", messages |-> "q", json_mode |-> FALSE,
         has_schema |-> FALSE, temperature |-> "0.8", max_tokens |-> "null",
         images |-> im] : im \in {<<>>, <<"i">>}}

\* what the transport returns: the content (possibly None) and its cost
Responses == {[text |-> "x", cost |-> 1], [text |-> "y", cost |-> 2],
              [text |-> "<None>", cost |-> 0]}

InitClient ==
  /\ tb = NoTextCall
  /\ ccfg = [enabled |-> TRUE, ttl_seconds |-> MaxTtl]
  /\ cfiles = <<>>
  /\ cnow = StartTime
  /\ cwritten = <<>>
  /\ clast = [op |-> "none"]
  /\ cthr = <<>>
  /\ llast = [fn |-> "none"]
  /\ JmIdle /\ DocIdle /\ BudIdle

NextClient ==
  \/ \E req \in Requests, resp \in Responses, d \in 0..1 : RunChat(req, resp, d)
  \/ \E req \in Requests, resp \in Responses, d \in 0..1 : RunVision(req, resp, d)
  \/ \E en \in BOOLEAN : Configure(<<en>>, <<>>)
  \/ ClientTick

SpecClient == InitClient /\ [][NextClient]_vars

\* run_jobs_parallel with its status thread; one OCR worker, one AI worker
InitPoll ==
  /\ tb = NoTextCall
  /\ JmConstructed(1, 1)
  /\ \E t \in BOOLEAN, im \in BOOLEAN, o \in BOOLEAN, nd \in 0..MaxDocs :
       pipe = [active |-> TRUE, do_text |-> t, do_image |-> im, enable_ocr |-> o,
               docs |-> nd, next |-> 1]
  /\ pcall = <<>>
  /\ precs = [n \in 1..pipe.docs |-> <<>>]
  /\ DocIdle
  /\ BudIdle
  /\ CacheLoaded

NextPoll ==
  \/ PipeSkip
  \/ PipeAddDoc
  \/ PipeRun
  \/ SubmitOcr \/ OcrLoopDone \/ SubmitAi \/ AiLoopDone
  \/ RunStop
  \/ RunJoinReturn
  \/ \E id \in DOMAIN runner : WorkerStep(id)
  \/ \E id \in DOMAIN runner : \E ok \in BOOLEAN : OcrRun(id, ok)
  \/ \E id \in DOMAIN runner : \E o \in Outcomes : AiRun(id, o)
  \/ PollCheck
  \/ PollSnapshot
  \/ PollWake

SpecPoll == InitPoll /\ [][NextPoll]_vars

\* set_tags, apply_tag_replacements and, on a new record, the tags taken from
\* the directory names, with tag lists of up to MaxTagList entries
TagNames == {"a", "b", ""}

TagConfidences == 0..MaxConf

SeqsUpTo(S, n) == UNION {[1..k -> S] : k \in 0..n}

ReplacementTargets == {"a", "b", ""}

Replacements == [original : {"a", "b"}, replacement : ReplacementTargets]

InitTags == TagsConstructed /\ DocConstructed /\ JmIdle /\ BudIdle /\ CacheLoaded /\ tb = NoTextCall

NextTags ==
  \/ \E pt \in SeqsUpTo({"a", "b"}, MaxTagList) : ExtractTags(pt)
  \/ \E tl \in SeqsUpTo(TagNames, MaxTagList), cl \in SeqsUpTo(TagConfidences, MaxTagList) :
       CallSetTags(tl, cl)
  \/ \E r \in SeqsUpTo(Replacements, MaxTagList) : CallApplyTagReplacements(r)

SpecTags == InitTags /\ [][NextTags]_vars

\* the same calls, and replies that carry only tags handed to set_from_dict;
\* their confidences are in hundredths
TagReplies ==
  [conf : {<<>>}, has_tags : {TRUE}, tags : SeqsUpTo(TagNames, MaxTagList),
   tags_confidence : SeqsUpTo({200}, MaxTagList)]

NextTagCalls ==
  \/ NextTags
  \/ \E reply \in TagReplies : CallSetFromJson(reply)

SpecTagCalls == InitTags /\ [][NextTagCalls]_vars

\* confidences of a reply on the 0..1 scale, in hundredths
UnitScale == {-100, 15, 100}

\* whole confidences of a reply on the 0..10 scale, in hundredths
TenScale == {-100, 700, 1200}

\* keys a reply carries besides the tags
ReplyKeys == {"title", "creation_date"}

ReplyTags == {<<"a">>, <<"a", "b">>}

RepliesOn(S) ==
  UNION {[conf : [K -> S], has_tags : {FALSE}, tags : {<<>>},
          tags_confidence : {<<>>}] : K \in SUBSET ReplyKeys}
    \cup UNION {[conf : [K -> S], has_tags : {TRUE}, tags : ReplyTags,
                 tags_confidence : [1..1 -> S]] : K \in SUBSET ReplyKeys}

Replies == RepliesOn(UnitScale) \cup RepliesOn(TenScale)

InitReply == DocConstructed /\ TagsConstructed /\ JmIdle /\ BudIdle /\ CacheLoaded /\ tb = NoTextCall

NextReply == \E reply \in Replies : CallSetFromJson(reply)

SpecReply == InitReply /\ [][NextReply]_vars

\* text-budget calls on short texts, with either tokenizer
TokenChars == {1, 7}

Tokenizers == {"tiktoken", "len4"}

SystemTexts == {<<4>>, <<4, 4, 4, 4>>}

UserTexts == SeqsUpTo(TokenChars, MaxTextTokens)

PageTexts == SeqsUpTo(TokenChars, MaxPageTokens) \ {<<>>}

PageTextLists == UNION {[1..n -> PageTexts] : n \in 1..MaxTextPages}

InitText ==
  /\ tb = NoTextCall
  /\ JmIdle
  /\ DocIdle
  /\ BudIdle
  /\ CacheLoaded

NextText ==
  \/ \E env \in Tokenizers, sy \in SystemTexts, us \in UserTexts, tl \in 0..MaxLimit :
       AnalyzeText(env, sy, us, tl)
  \/ \E env \in Tokenizers, sy \in SystemTexts, ts \in PageTextLists, tl \in 0..MaxLimit :
       TrimPages(env, sy, ts, tl)

SpecText == InitText /\ [][NextText]_vars

\* ------------------------------------------------------------------------
\* Claims about the job scheduler
\* ------------------------------------------------------------------------
Started(st) == st \in {"running", "done", "failed"}

Finished(st) == st \in {"done", "failed"}

\* C1: a job leaves `pending` for `running` only after every job named in its
\* deps that was added to the manager has reached `done`, whether that job
\* was added before or after it (checked under SpecJM).
C1_DepsDoneBeforeRunning ==
  \A i \in DOMAIN jobs :
    Started(jobs[i].status) =>
      \A k \in DOMAIN jobs[i].deps :
        (jobs[i].deps[k] \in JobIdSet /\ jobs[i].deps[k] # jobs[i].id)
          => StatusOf(jobs[i].deps[k]) = "done"

\* C2: when a dependency that a job waits on ended in `failed`, the dependent
\* is `failed` too (not `pending`) when run() returns (checked under SpecJM).
C2_DependentFailed ==
  mainPc = "returned" =>
    \A id \in DOMAIN runner :
      (\E k \in DOMAIN runner[id].wait_for : StatusOf(runner[id].wait_for[k]) = "failed")
        => StatusOf(id) = "failed"

\* C3: the tally returned by run() has pending = 0, running = 0 and
\* done + failed = number of added jobs (checked under SpecJM).
C3_TallyTerminal ==
  mainPc = "returned" =>
    /\ tally[1] = 0
    /\ tally[2] = 0
    /\ tally[3] + tally[4] = Len(jobs)

PipeHas(kind, n) == <<kind, n>> \in JobIdSet

\* C4: in run_jobs_parallel a document's text job never starts before that
\* document's image job and OCR job (those scheduled) are done or failed, and
\* with OCR enabled its image job never starts before its OCR job has
\* finished (checked under SpecPipe).
C4_PipelineOrder ==
  \A n \in 1..MaxDocs :
    /\ (PipeHas("text", n) /\ Started(StatusOf(<<"text", n>>))) =>
         /\ PipeHas("image", n) => Finished(StatusOf(<<"image", n>>))
         /\ PipeHas("ocr", n) => Finished(StatusOf(<<"ocr", n>>))
    /\ (PipeHas("image", n) /\ Started(StatusOf(<<"image", n>>))) =>
         (PipeHas("ocr", n) => Finished(StatusOf(<<"ocr", n>>)))

\* a text job runs, all three jobs of its document being scheduled, on a
\* single AI worker, while another document's jobs are still waiting
C4_Witness ==
  /\ pipe.active
  /\ workers.ai = 1
  /\ PipeHas("text", 1) /\ PipeHas("image", 1) /\ PipeHas("ocr", 1)
  /\ StatusOf(<<"text", 1>>) = "running"
  /\ StatusOf(<<"image", 1>>) = "done"
  /\ StatusOf(<<"ocr", 1>>) = "done"
  /\ PipeHas("text", 2) /\ StatusOf(<<"text", 2>>) = "pending"

\* C11: when the LLM transport call of a document's text or image job raises,
\* the pass leaves the document's record unchanged and, run() having
\* returned, the job's status is `failed` and the tally counts it as failed
\* (checked under SpecPipe).
C11_TransportFailureFailsJob ==
  mainPc = "returned" =>
    \A id \in DOMAIN pcall :
      pcall[id] = "transport_raises" =>
        /\ \A k \in DOMAIN precs[id[2]] : precs[id[2]][k] # id[1]
        /\ StatusOf(id) = "failed"
        /\ tally[4] >= 1

\* the jobs of document n that are in `running` state
RunningOf(n) == {i \in DOMAIN jobs : jobs[i].id[2] = n /\ jobs[i].status = "running"}

\* C12: in run_jobs_parallel no two jobs of the same document are `running`
\* at the same moment, for every do_text / do_image / enable_ocr and worker
\* counts (checked under SpecPipe).
C12_OneRunningJobPerDocument ==
  pipe.active => \A n \in 1..pipe.docs : Cardinality(RunningOf(n)) <= 1

\* two documents with all three jobs each and free workers in both pools:
\* the image job of one runs while the OCR job of the other runs, the first
\* document's text job still pending
C12_Witness ==
  /\ pipe.active
  /\ workers.ai = 2 /\ workers.ocr = 2
  /\ PipeHas("ocr", 1) /\ PipeHas("image", 1) /\ PipeHas("text", 1) /\ PipeHas("ocr", 2)
  /\ StatusOf(<<"ocr", 1>>) = "done"
  /\ StatusOf(<<"image", 1>>) = "running"
  /\ StatusOf(<<"text", 1>>) = "pending"
  /\ runner[<<"text", 1>>].pc = "deps"
  /\ StatusOf(<<"ocr", 2>>) = "running"

StatusChanges == {<<"pending", "running">>, <<"running", "done">>, <<"running", "failed">>}

\* C13: every status change of a job is pending -> running, running -> done
\* or running -> failed (so done and failed are never left and pending is
\* never re-entered), and a job's run callable is entered only by the step
\* that takes the job from pending to running, hence at most once per run()
\* (checked under SpecJM).
C13_StateMachine ==
  [][\A i \in DOMAIN jobs :
       /\ jobs'[i].status # jobs[i].status =>
            <<jobs[i].status, jobs'[i].status>> \in StatusChanges
       /\ (/\ jobs[i].id \in DOMAIN runner
           /\ runner[jobs[i].id].pc # "running"
           /\ runner'[jobs[i].id].pc = "running") =>
            (jobs[i].status = "pending" /\ jobs'[i].status = "running")]_vars

\* run() returned with a job done, a job failed by its own run callable and a
\* job left behind a failed dependency
C13_Witness ==
  /\ mainPc = "returned"
  /\ \E i, j, k \in DOMAIN jobs :
       /\ jobs[i].status = "done"
       /\ jobs[j].status = "failed"
       /\ jobs[k].status = "pending"

\* the documents one of whose run callables raised
FailedDocs == {id[2] : id \in {j \in DOMAIN pcall : pcall[j] = "raises"}}

\* C14: a raising job of one document does not change another document's
\* outcome: when run() has returned, a job that ran is failed if its own run
\* callable raised and done otherwise, a job that never ran is pending behind
\* a job of its own document that is not done, and the returned tally counts
\* as not done only jobs of documents with a raising job (checked under
\* SpecPipe).
C14_FailureIsolation ==
  mainPc = "returned" =>
    /\ \A i \in DOMAIN jobs :
         LET id == jobs[i].id
         IN IF id \in DOMAIN pcall
              THEN jobs[i].status = (IF pcall[id] = "raises" THEN "failed" ELSE "done")
              ELSE /\ jobs[i].status = "pending"
                   /\ \E k \in DOMAIN jobs[i].deps :
                        /\ jobs[i].deps[k][2] = id[2]
                        /\ StatusOf(jobs[i].deps[k]) # "done"
    /\ tally[1] + tally[2] + tally[4] =
         Cardinality({i \in DOMAIN jobs : jobs[i].status # "done" /\ jobs[i].id[2] \in FailedDocs})
    /\ tally[3] >= Cardinality({i \in DOMAIN jobs : jobs[i].id[2] \notin FailedDocs})

\* run() returned: the first document's OCR raised and left its image and
\* text jobs behind, the second document's three jobs are all done
C14_Witness ==
  /\ mainPc = "returned"
  /\ pipe.active /\ pipe.docs = 2
  /\ PipeHas("ocr", 1) /\ PipeHas("image", 1) /\ PipeHas("text", 1)
  /\ StatusOf(<<"ocr", 1>>) = "failed"
  /\ StatusOf(<<"text", 1>>) = "pending"
  /\ \A k \in {"ocr", "image", "text"} : StatusOf(<<k, 2>>) = "done"
  /\ tally = <<2, 0, 3, 1>>

RunningKind(k) == {i \in DOMAIN jobs : jobs[i].kind = k /\ jobs[i].status = "running"}

\* a text job whose dependencies are done waits at the head of its queue
\* although fewer text jobs than the AI worker count hold a worker, because
\* a running image job holds one
TextKeptWaitingByImage ==
  \E id \in DOMAIN runner :
    /\ KindOf(id) = "text"
    /\ runner[id].pc = "queued"
    /\ \A k \in DOMAIN runner[id].wait_for : futures[runner[id].wait_for[k]] = "ok"
    /\ queue[PoolOf("text")] # <<>>
    /\ Head(queue[PoolOf("text")]) = id
    /\ Cardinality({b \in Busy(PoolOf("text")) : KindOf(b) = "text"}) < workers.ai
    /\ Cardinality(Busy(PoolOf("text"))) >= workers.ai
    /\ \E b \in Busy(PoolOf("text")) : KindOf(b) = "image" /\ StatusOf(b) = "running"

\* C15 as stated: the running jobs of each kind number at most that kind's
\* worker count (ocr_workers for ocr, ai_workers for text and for image), and
\* running image jobs never take away from the text jobs that may run
\* (checked under SpecJM).
C15_SeparatePools ==
  /\ Cardinality(RunningKind("ocr")) <= workers.ocr
  /\ Cardinality(RunningKind("text")) <= workers.ai
  /\ Cardinality(RunningKind("image")) <= workers.ai
  /\ ~TextKeptWaitingByImage

\* C15 amended: OCR jobs run in their own pool and text and image jobs share
\* one AI pool: the running ocr jobs number at most ocr_workers and the running
\* text and image jobs together at most ai_workers (checked under SpecJM).
C15_SharedAiPool ==
  /\ Cardinality(RunningKind("ocr")) <= workers.ocr
  /\ Cardinality(RunningKind("text") \cup RunningKind("image")) <= workers.ai

\* with two AI workers a text job and an image job run side by side while a
\* further text job waits in the queue for one of the two workers
C15_Witness ==
  /\ workers.ai = 2
  /\ Cardinality(RunningKind("text")) = 1
  /\ Cardinality(RunningKind("image")) = 1
  /\ \E id \in DOMAIN runner : KindOf(id) = "text" /\ runner[id].pc = "queued"

\* C5: a started run() always returns, for any job set and dependency lists
\* (never-added ids, self-references, cycles) and any worker counts >= 1
\* (checked under FairSpecJM).
C5_RunTerminates == (mainPc = "submit_ocr") ~> (mainPc = "returned")

\* run() returned with one AI worker shared by text and image jobs whose
\* deps hold a cycle and a self-reference
C5_Witness ==
  /\ mainPc = "returned"
  /\ workers.ai = 1
  /\ Len(jobs) = 3
  /\ jobs[1].kind = "text" /\ jobs[2].kind = "image" /\ jobs[3].kind = "text"
  /\ jobs[1].deps = << <<"job", 2>> >>
  /\ jobs[2].deps = << <<"job", 1>> >>
  /\ jobs[3].deps = << <<"job", 3>> >>

\* ------------------------------------------------------------------------
\* Claims about the request assembly (checked under SpecBud)
\* ------------------------------------------------------------------------

\* C8: when the intro fits the token limit, the assembled request's estimated
\* cost (intro + trimmed page text + admitted image tokens, an image admitted
\* by the adaptive fallback included) is at most the token limit.
C8_BudgetNeverExceeded ==
  bpc = "done" => bsel.used_tokens + bsel.image_tokens_spent <= binp.token_limit

IsImage(part) == part.type = "image_url"

IsPageText(part) == part.type = "text" /\ part.key[1] = "text"

\* C9: the first part is the single intro block, pages appear in ascending
\* order, and every image part of a page p comes after p's text block and
\* before the text block of any later page.
C9_PartsOrder ==
  bpc = "done" =>
    /\ Len(bparts) >= 1
    /\ bparts[1].key[1] = "intro"
    /\ \A i \in 2..Len(bparts) : bparts[i].key[1] # "intro"
    /\ \A i \in DOMAIN bparts : \A j \in DOMAIN bparts :
         /\ i < j => bparts[i].page <= bparts[j].page
         /\ (IsImage(bparts[i]) /\ IsPageText(bparts[j]) /\ bparts[j].page = bparts[i].page)
              => j < i
         /\ (IsImage(bparts[i]) /\ IsPageText(bparts[j]) /\ bparts[j].page > bparts[i].page)
              => i < j

\* a request of two pages, each with its text followed by its own images
C9_Witness ==
  /\ bpc = "done"
  /\ Len(bparts) = 6
  /\ [i \in 1..6 |-> <<bparts[i].type, bparts[i].page>>]
       = << <<"text", 0>>, <<"text", 1>>, <<"image_url", 1>>, <<"image_url", 1>>,
            <<"text", 2>>, <<"image_url", 2>> >>

\* ------------------------------------------------------------------------
\* Claims about the Metadata Record (checked under SpecDoc)
\* ------------------------------------------------------------------------

\* C6: for set_title, set_summary, set_creator and set_importance, after any
\* sequence of calls the stored confidence is the highest confidence ever
\* supplied and the stored value is that of the latest call that carried it.
C6_MonotonicConfidence ==
  \A f \in SimpleFields :
    hist[f].max >= 0 => doc[ConfKey(f)] = hist[f].max /\ doc[f] = hist[f].val

\* a weaker call was refused and an equal-confidence call replaced the value
C6_Witness ==
  /\ seen = {"lower", "tie"}
  /\ doc.title_confidence >= 1
  /\ doc.title = "B"
  /\ hist["title"] = [max |-> doc.title_confidence, val |-> "B"]

\* C7: set_creation_date replaces the stored date only under the confidence
\* gate; a call with strictly lower confidence, whatever its value (an empty
\* one included), leaves creation_date and creation_date_confidence unchanged.
C7_DateGate ==
  [][\A v \in DateInputs, c \in Confidences :
       (CallSetCreationDate(v, c) /\ c < doc.creation_date_confidence)
         => /\ doc'.creation_date = doc.creation_date
            /\ doc'.creation_date_confidence = doc.creation_date_confidence]_vars

\* ------------------------------------------------------------------------
\* Claims about the cache
\* ------------------------------------------------------------------------
\* Time is seconds since the epoch and a TTL is a configured number of
\* seconds, so StartTime + t > 0 for every t in Ttls: set never writes an
\* expires_at that get would take for a missing one.

\* C10: with the cache enabled, a get of an entry that set has written returns
\* the written value when it is called before the entry's expires_at; called
\* at now >= expires_at it returns nothing and the entry's file is gone, so a
\* later get misses as well until the entry is set again.
C10_RoundTrip ==
  (clast.op = "get" /\ clast.enabled /\ clast.path \in DOMAIN cwritten) =>
    LET w == cwritten[clast.path]
    IN IF clast.now < w.expires_at
         THEN clast.result = <<w.v>>
         ELSE clast.result = <<>> /\ clast.path \notin DOMAIN cfiles

\* a hit on one entry after time has passed, while another entry that was
\* written has been removed by an expired get
C10_Witness ==
  /\ clast.op = "get"
  /\ clast.enabled
  /\ clast.result # <<>>
  /\ clast.now > StartTime
  /\ \E p \in DOMAIN cwritten : p \notin DOMAIN cfiles


\* ------------------------------------------------------------------------
\* Claims about the tags
\* ------------------------------------------------------------------------
TagSet(ts) == {ts[i] : i \in DOMAIN ts}

\* C16: after any sequence of set_tags calls the tag set is the union of the
\* non-empty tags supplied (no tag is ever removed) and each tag's stored
\* confidence is the highest confidence supplied for that tag; tags the
\* record held before the calls count as supplied (checked under SpecTags).
C16_TagsUnionMaxConfidence ==
  /\ TagSet(tags) = DOMAIN tsup
  /\ Len(tags_confidence) = Len(tags)
  /\ \A i \in DOMAIN tags : tags_confidence[i] = tsup[tags[i]]

\* a set_tags call that supplied a known tag with a lower confidence than the
\* stored one, on a record holding two tags, and changed nothing
C16_Witness ==
  /\ tcall.op = "set_tags"
  /\ Len(tags) = 2
  /\ Len(tcall.tag_list) = Len(tcall.confidence_list)
  /\ ~tcall.changed
  /\ \E k \in DOMAIN tcall.tag_list :
       /\ tcall.tag_list[k] \in DOMAIN tsup
       /\ tcall.confidence_list[k] < tsup[tcall.tag_list[k]]

\* C17: set_tags applied a second time in a row with the same (tags,
\* confidences) pair leaves tags and tags_confidence as the first application
\* left them (checked under SpecTags).
C17_SetTagsIdempotent ==
  (tcall.op = "set_tags" /\ tcall.repeated) => ~tcall.changed

\* the repeated pair names the same tag twice with different confidences and
\* the record holds a further tag
C17_Witness ==
  /\ tcall.op = "set_tags"
  /\ tcall.repeated
  /\ Len(tcall.tag_list) = 2 /\ Len(tcall.confidence_list) = 2
  /\ tcall.tag_list[1] = tcall.tag_list[2]
  /\ tcall.tag_list[1] # ""
  /\ tcall.confidence_list[1] # tcall.confidence_list[2]
  /\ Len(tags) = 2

\* C18: apply_tag_replacements maps every tag through the old -> new mapping
\* (unmapped tags stay, tags mapped to "" are deleted) and a tag that several
\* tags were merged into carries the highest of their confidences, whatever
\* the order of the tags in the record (checked under SpecTags).
C18_ReplacementsKeepHighest ==
  [][\A r \in SeqsUpTo(Replacements, MaxTagList) :
       CallApplyTagReplacements(r) =>
         LET rd == ReplacementDict(r, 1)
             NewOf(t) == IF DictHas(rd, t) THEN DictGet(rd, t) ELSE t
             ConfAt(i) == IF i <= Len(tags_confidence) THEN tags_confidence[i] ELSE 0
         IN /\ TagSet(tags') = {NewOf(tags[i]) : i \in DOMAIN tags} \ {""}
            /\ Len(tags_confidence') = Len(tags')
            /\ \A j \in DOMAIN tags' :
                 tags_confidence'[j] =
                   SetMax({ConfAt(i) : i \in {i \in DOMAIN tags : NewOf(tags[i]) = tags'[j]}})]_vars


\* ------------------------------------------------------------------------
\* Claims about LLM replies
\* ------------------------------------------------------------------------
ConfidenceRange == 0..10

\* C19: after any sequence of metadata updates on a record (here:
\* set_from_json applied to normalised LLM replies) every stored confidence,
\* the five field confidences and each tag confidence, is an integer in [0,10]
\* (checked under SpecReply).
C19_ConfidencesInRange ==
  /\ \A f \in SimpleFields \cup {"creation_date"} : doc[ConfKey(f)] \in ConfidenceRange
  /\ \A k \in DOMAIN tags_confidence : tags_confidence[k] \in ConfidenceRange


\* ------------------------------------------------------------------------
\* Claims about the intro guard of analyze_combined
\* ------------------------------------------------------------------------
\* C20: analyze_combined aborts the whole call (no response, skipped_reason
\* intro_exceeds_limit, no request assembled or sent, record unchanged) if and
\* only if the intro alone costs more than the token limit; when the intro
\* fits, over-long page text is trimmed and the call goes on (checked under
\* SpecBud).
C20_AbortIffIntroExceedsLimit ==
  /\ bpc = "aborted" =>
       /\ TokLen(binp.intro_chars) > binp.token_limit
       /\ bparts = <<>> /\ btext = <<>> /\ bsel = NoSelection
       /\ DocIdle
  /\ bpc \in {"order", "greedy", "assemble", "done"} =>
       TokLen(binp.intro_chars) <= binp.token_limit
  /\ bsel.trimmed => bpc # "aborted"

\* an aborted call on a document whose pages carry text
C20_Witness ==
  /\ bpc = "aborted"
  /\ \E p \in DOMAIN binp.page_chars : binp.page_chars[p] > 0


\* ------------------------------------------------------------------------
\* Claims about the cache under concurrent threads (checked under SpecThreads)
\* ------------------------------------------------------------------------
GetThreads == {t \in 1..MaxThreads : cthr.thr[t].op = "get"}

\* C21: a get that runs while another thread executes set on the same entry
\* returns a miss, the value stored before, or the complete new value; the
\* document it loads is always a complete one, never a partly written entry.
C21_NoPartialRead ==
  \A t \in GetThreads :
    LET rec == cthr.thr[t]
    IN /\ rec.why # "error"
       /\ rec.text # <<>> => IsDocument(rec.text)
       /\ (rec.pc = "returned" /\ rec.result # <<>>) =>
            /\ rec.result = <<JsonLoad(rec.text).data>>
            /\ rec.result[1] \in CacheValues

\* a get that loaded the old document returns it as a hit after a set of
\* another value has replaced the entry
C21_Witness ==
  \E t \in GetThreads :
    /\ cthr.thr[t].pc = "returned"
    /\ cthr.thr[t].why = "hit"
    /\ SharedPath \in DOMAIN cfiles
    /\ cfiles[SharedPath].text # cthr.thr[t].text
    /\ JsonLoad(cfiles[SharedPath].text).data # cthr.thr[t].result[1]

\* C29: once a set of v has completed, every get of the entry that starts
\* afterwards and finishes before v expires returns v, whatever gets were in
\* progress during the set (no other set completing in the meantime).
C29_FreshEntrySurvives ==
  \A t \in GetThreads :
    LET rec == cthr.thr[t]
    IN (/\ rec.pc = "returned"
        /\ rec.startw # <<>>
        /\ cwritten[SharedPath] = rec.startw[1]
        /\ rec.now < rec.startw[1].expires_at)
         => rec.result = <<rec.startw[1].v>>


C23_FinalLineExactlyOnce ==
  \A k \in Kinds :
    /\ poll.emitted[k] <= 1
    /\ poll.emitted[k] >= 1 => KindCount(k, {"pending", "running"}) = 0
    /\ (mainPc = "returned" /\ KindCount(k, {"pending", "running", "done", "failed"}) > 0)
         => poll.emitted[k] = 1


\* ------------------------------------------------------------------------
\* Claims about worker slots (checked under SpecPipe)
\* ------------------------------------------------------------------------
\* the runner sits in f.result() of a dependency that has not completed
WaitingOnDep(id) ==
  /\ runner[id].pc = "deps"
  /\ runner[id].i <= Len(runner[id].wait_for)
  /\ futures[runner[id].wait_for[runner[id].i]] = "pending"

DepsDone(id) ==
  \A k \in DOMAIN runner[id].wait_for : futures[runner[id].wait_for[k]] = "ok"

\* C25: a job that waits for a dependency holds no worker slot, so a submitted
\* job whose dependencies are all done is never kept in its pool's queue by a
\* pool whose workers are taken by dependency-blocked jobs.
C25_BlockedJobsHoldNoWorker ==
  \A id \in DOMAIN runner :
    (runner[id].pc = "queued" /\ DepsDone(id)) =>
      ~(/\ Cardinality(Busy(PoolOf(KindOf(id)))) >= workers[PoolOf(KindOf(id))]
        /\ \E b \in Busy(PoolOf(KindOf(id))) : WaitingOnDep(b))


\* ------------------------------------------------------------------------
\* Claims about the adaptive fallback (checked under SpecBud)
\* ------------------------------------------------------------------------
\* what the greedy walk left: it admitted nothing, so remaining is still the
\* value the text budget set
LeftoverBeforeFallback == Max2(0, binp.token_limit - bsel.used_tokens)

GreedyAdmittedNothing ==
  \/ bsel.fallback
  \/ bsel.selected_pages_full = {} /\ bsel.selected_images = {}

\* C24: when the greedy walk admitted nothing, a candidate exists and the
\* leftover budget covers one tile (85 + 170), the fallback includes exactly
\* one candidate, with a tile count >= 1 whose cost 85 + 170 * tiles is at
\* most the leftover budget.
C24_FallbackFitsLeftover ==
  (/\ bpc \in {"assemble", "done"}
   /\ GreedyAdmittedNothing
   /\ bord.ordered # <<>>
   /\ LeftoverBeforeFallback >= BaseTokens + TileTokens)
    => /\ bsel.fallback
       /\ Cardinality(bsel.selected_pages_full) + Cardinality(bsel.selected_images) = 1
       /\ \E tiles \in 1..MaxTiles :
            /\ bsel.image_tokens_spent = BaseTokens + TileTokens * tiles
            /\ bsel.image_tokens_spent <= LeftoverBeforeFallback


\* ------------------------------------------------------------------------
\* Claims about text budgets (checked under SpecText)
\* ------------------------------------------------------------------------
\* tokens the trimming loop left for input page k (0 when the page was dropped)
KeptTokens(k) ==
  LET ps == SelectSeq(tb.kept, LAMBDA part : part.page = k)
  IN SumSeq([j \in 1..Len(ps) |-> TokenizeText(tb.env, ps[j].text)])

\* C26: when intro + page texts exceed the limit T (intro <= T) the intro is
\* kept whole and page p is left with floor(tokens_p * (T - intro) / total)
\* tokens, pages of equal token count get equal results, and intro + trimmed
\* text <= T.
C26_ProportionalTrim ==
  (tb.op = "analyze_combined" /\ ~tb.aborted /\ tb.trimmed) =>
    LET n == Len(tb.text_parts)
        intro_tokens == TokenizeText(tb.env, tb.intro)
        tok(k) == TokenizeText(tb.env, tb.text_parts[k].text)
        total == SumSeq([k \in 1..n |-> tok(k)])
        share(k) == (tok(k) * (tb.token_limit - intro_tokens)) \div total
    IN /\ \A k \in 1..n : KeptTokens(k) = share(k)
       /\ \A j, k \in 1..n : tok(j) = tok(k) => KeptTokens(j) = KeptTokens(k)
       /\ tb.used_tokens = intro_tokens + SumSeq([k \in 1..n |-> KeptTokens(k)])
       /\ tb.used_tokens <= tb.token_limit

\* C28: apply_text_budget keeps the system text, aborts exactly when the
\* system text alone exceeds token_limit, and every non-abort result has
\* intro_tokens + tokens(user_text) = used_tokens <= token_limit, also when
\* the system text uses the whole limit.
C28_TextBudgetWithinLimit ==
  tb.op = "analyze_text" =>
    /\ tb.budget.abort <=> TokenizeText(tb.env, tb.system) > tb.token_limit
    /\ ~tb.budget.abort =>
         /\ tb.messages[1] = tb.system
         /\ tb.budget.intro_tokens + TokenizeText(tb.env, tb.budget.user_text)
              = tb.budget.used_tokens
         /\ tb.budget.used_tokens <= tb.token_limit


\* ------------------------------------------------------------------------
\* Claims about the order of the greedy walk (checked under SpecBud)
\* ------------------------------------------------------------------------
\* C27: the greedy walk visits every candidate; those on the first
\* priority_first_pages pages come first, in encounter order (by page, a
\* page-group candidate at the position of its page, images by id), then
\* those of the remaining pages by descending area.
C27_WalkOrder ==
  bpc \in {"greedy", "assemble", "done"} =>
    LET o == bord.ordered
        N == binp.priority_first_pages
    IN /\ bpc # "greedy" => bord.i = Len(o) + 1
       /\ \A i, j \in DOMAIN o :
            i < j =>
              /\ o[j].page <= N => o[i].page <= N
              /\ (o[i].page <= N /\ o[j].page <= N) =>
                   /\ o[i].page <= o[j].page
                   /\ o[i].page = o[j].page => o[i].id < o[j].id
              /\ (o[i].page > N /\ o[j].page > N) => o[i].area >= o[j].area


\* ------------------------------------------------------------------------
\* Claims about the shape of the tag lists (checked under SpecTagCalls)
\* ------------------------------------------------------------------------
\* C30: after set_tags, set_from_dict or apply_tag_replacements, tags and
\* tags_confidence have the same length and tags holds no duplicate and no
\* empty string; a set_tags call with lists of different lengths leaves tags
\* and tags_confidence as they were.
C30_TagListsWellFormed ==
  /\ tcall.op \in {"set_tags", "set_from_json", "replace"} =>
       /\ Len(tags) = Len(tags_confidence)
       /\ \A i, j \in DOMAIN tags : i # j => tags[i] # tags[j]
       /\ \A i \in DOMAIN tags : tags[i] # ""
  /\ (tcall.op = "set_tags" /\ Len(tcall.tag_list) # Len(tcall.confidence_list)) =>
       ~tcall.changed

====
